---- MODULE Spec2Model ----
(***************************************************************************)
(* Verification model of the fcge content-migration scripts                *)
(* (src/scripts/*.py).  Each script is a sequential batch transform; the   *)
(* model has one specification per script family:                          *)
(*   SpecLayout       - fix_article_layout.py  (Template Composer)         *)
(*   SpecNormalizeSrc - normalize_posts_content.normalize_src              *)
(*   SpecNormalize    - normalize_posts_content.py (image dedup pass)      *)
(*   SpecLinks        - the three rewrite_internal_links (Link Rewriter)   *)
(*   SpecDownload     - migrar_blog_fcge.download_image (Asset Normalizer) *)
(*   SpecRestoreDownload - restore_article_content.download_image         *)
(*   SpecMigrate      - migrar_blog_fcge.main, the images of each article  *)
(*   SpecExcerpt      - the three excerpt truncations                      *)
(*   SpecFetch        - the three fetch functions (retry with backoff)     *)
(*   SpecRestore      - restore_article_content.main, page by page         *)
(*   SpecPosts        - posts.json as the migrators write it               *)
(*   SpecSyncLinks    - sync_blog_single_page.replace_post_href_links      *)
(*   SpecIndex(Fair)  - the discovery of the blog index                    *)
(*   SpecSeo          - seo_audit_and_fix.normalize_head                   *)
(*   SpecCases(Fair)  - sync_cases_from_doc.parse_cases_from_text          *)
(* Python strings are sequences of one-character strings, so that prefix   *)
(* tests, regular expressions, concatenation and case folding are          *)
(* computed as the code computes them.  HTML is a forest of element        *)
(* records; serialising and parsing are modelled as token streams.         *)
(***************************************************************************)
EXTENDS Integers, Sequences, FiniteSets, TLC

VARIABLES
    \* ---- fix_article_layout.py
    template,     \* the parsed template (blog.html), loaded once
    files,        \* page path -> document on disk
    pc,           \* "idle" | "running": position of main()
    queue,        \* article_paths still to be processed in this run
    report,       \* the in-memory report dict of the current run
    reportFile,   \* layout-fix-report.json as last written
    runs,         \* number of runs of main() started so far
    composed,     \* history: page -> number of times it was composed
    firstOut,     \* history: page -> the document after its first composition
    last,         \* history: what the last composition read and extracted
    \* ---- normalize_posts_content.py: normalize_src as a function
    srcIn,        \* the image reference handed to normalize_src
    srcOut,       \* the dedup key it returned, Unset before the call
    \* ---- normalize_posts_content.py: main
    postsJson,    \* data/posts.json: the list of posts on disk
    posts,        \* the list main() loaded and normalizes in place
    npc,          \* "idle" or "running" (inside the loop of main)
    ni,           \* index of the next post of the loop
    nreport,      \* totals accumulated by the loop
    nreportFile,  \* blog-normalize-report.json, <<>> until written
    nruns,        \* completed or started runs of main()
    loaded,       \* history: the posts as main() loaded them
    \* ---- rewrite_internal_links of the three migration scripts
    anchors,      \* href of every <a> of the body, Absent where it has none
    rewriter,     \* the script whose rewriter ran, "none" before
    rewritten,    \* the hrefs after the rewriter ran
    rewrites,     \* the count the rewriter returned
    \* ---- migrar_blog_fcge.py: download_image
    image_cache,  \* slug -> (source URL -> local path), per run
    disk,         \* the paths below imagens/blog/ that hold a non-empty file
    baixadas,     \* report["imagensBaixadas"]
    dpc,          \* "idle" or "running" (inside main)
    druns,        \* runs of main() started
    dcalls,       \* download_image calls made so far
    dhist         \* history: per (slug, URL), what its calls did in this run

layoutVars == <<template, files, pc, queue, report, reportFile, runs,
                composed, firstOut, last>>

srcVars == <<srcIn, srcOut>>

normVars == <<postsJson, posts, npc, ni, nreport, nreportFile, nruns, loaded>>

linkVars == <<anchors, rewriter, rewritten, rewrites>>

dlVars == <<image_cache, disk, baixadas, dpc, druns, dcalls, dhist>>

VARIABLES
    \* ---- migrar_blog_fcge.py: main (with image_cache, disk, baixadas)
    mpc,          \* "idle" | "next" | "images": position of main()
    mqueue,       \* posts of the index still to be migrated
    mslug,        \* slug of the article in hand
    msource,      \* history: the imgs of its body as extracted
    mimgs,        \* the imgs of body_soup, rewritten one by one
    mresults,     \* history: what download_image returned for each img
    mog,          \* og:image of the page in hand, Absent if none
    mreport,      \* the report dict of the run, <<>> before it
    mreportFile,  \* migration-report.json, <<>> until written
    marticles,    \* slug -> the article file written for it
    mfailed       \* history: image downloads that failed in the run

migVars == <<mpc, mqueue, mslug, msource, mimgs, mresults, mog, mreport,
             mreportFile, marticles, mfailed>>

VARIABLES
    \* ---- excerpt truncation as a function
    exFn,         \* which script's truncation is applied
    exIn,         \* the text handed to it
    exOut         \* the excerpt it returned, Unset before the call

exVars == <<exFn, exIn, exOut>>

VARIABLES
    \* ---- fetch
    fFn,          \* which script's fetch is running
    fpc,          \* "idle" | "loop": position inside fetch
    fAttempt,     \* the loop variable attempt
    fBackoff,     \* the local variable backoff
    fSleeps,      \* history: the time.sleep arguments of the current call
    fOutcomes,    \* history: what each request of the current call did
    fResults      \* history: "returned" or "raised" for every ended call

fetchVars == <<fFn, fpc, fAttempt, fBackoff, fSleeps, fOutcomes, fResults>>

VARIABLES
    \* ---- restore_article_content.py: main (with disk)
    rpc,          \* "idle" | "running" | "aborted": position of main()
    rqueue,       \* article files still to be processed
    rfiles,       \* slug -> the article file on disk
    rreport,      \* the report dict of the run, <<>> before it
    rreportFile,  \* layout-fix-report.json, <<>> until written
    rlast         \* history: what the last iteration read and did

rsVars == <<rpc, rqueue, rfiles, rreport, rreportFile, rlast>>

VARIABLES
    \* ---- posts.json as migrar_blog_fcge.py and sync_blog_single_page.py write it
    posts_json,   \* data/posts.json: whether it exists and its records
    pruns,        \* number of runs that wrote it
    plast         \* history: which script wrote last and what its index held

postVars == <<posts_json, pruns, plast>>

VARIABLES
    \* ---- collect_index_posts and discover_post_urls
    iFn,          \* "migrar" | "sync": which discovery is running
    ipc,          \* "idle" | "loop" | "done" | "raised"
    iqueue,       \* collect_index_posts: the queue of index page URLs
    ivisited,     \* collect_index_posts: the set visited
    ipage,        \* discover_post_urls: the loop variable page_num
    istreak,      \* discover_post_urls: empty_streak
    iseen,        \* discover_post_urls: the set seen
    iout,         \* the slugs found, in the order of the result
    ifetched,     \* history: index page -> number of requests for it
    ihist         \* history: a page was passed over, a fetch failed, the streak ended

idxVars == <<iFn, ipc, iqueue, ivisited, ipage, istreak, iseen, iout, ifetched, ihist>>

VARIABLES
    \* ---- seo_audit_and_fix.py: normalize_head on one page
    seoSoup,      \* the page: its head, first h1 and main text
    seoEnv,       \* the page name, its entry of posts.json, the logo files
    seoRuns,      \* number of runs of the script on the page
    seoLast       \* history: title and tag counts before the last run

seoVars == <<seoSoup, seoEnv, seoRuns, seoLast>>

VARIABLES
    \* ---- sync_cases_from_doc.py: parse_cases_from_text
    cBlocks,      \* the blocks still to be read
    cpc,          \* "idle" | "split" | "for" | "while" | "done"
    cCases,       \* the list cases: slug and title of each
    cUsed,        \* the set used_slugs
    cSlug,        \* the local variable slug
    cBase,        \* the local variable base_slug
    cCounter      \* the local variable counter

caseVars == <<cBlocks, cpc, cCases, cUsed, cSlug, cBase, cCounter>>

vars == <<layoutVars, srcVars, normVars, linkVars, dlVars, migVars, exVars, fetchVars, rsVars, postVars, idxVars, seoVars, caseVars>>

\* the variables of the other scripts, which a script leaves alone
notLayout == <<srcVars, normVars, linkVars, dlVars, migVars, exVars, fetchVars, rsVars, postVars, idxVars, seoVars, caseVars>>
notSrc == <<layoutVars, normVars, linkVars, dlVars, migVars, exVars, fetchVars, rsVars, postVars, idxVars, seoVars, caseVars>>
notNorm == <<layoutVars, srcVars, linkVars, dlVars, migVars, exVars, fetchVars, rsVars, postVars, idxVars, seoVars, caseVars>>
notLinks == <<layoutVars, srcVars, normVars, dlVars, migVars, exVars, fetchVars, rsVars, postVars, idxVars, seoVars, caseVars>>
notDl == <<layoutVars, srcVars, normVars, linkVars, migVars, exVars, fetchVars, rsVars, postVars, idxVars, seoVars, caseVars>>
notMig == <<layoutVars, srcVars, normVars, linkVars, exVars, fetchVars, rsVars, postVars, idxVars, seoVars, caseVars>>
notExcerpt == <<layoutVars, srcVars, normVars, linkVars, dlVars, migVars, fetchVars, rsVars, postVars, idxVars, seoVars, caseVars>>
notFetch == <<layoutVars, srcVars, normVars, linkVars, dlVars, migVars, exVars, rsVars, postVars, idxVars, seoVars, caseVars>>
notRestore == <<layoutVars, srcVars, normVars, linkVars, migVars, exVars, fetchVars, postVars, idxVars, seoVars, caseVars>>
notPosts == <<layoutVars, srcVars, normVars, linkVars, dlVars, migVars, exVars, fetchVars, rsVars, idxVars, seoVars, caseVars>>
notIndex == <<layoutVars, srcVars, normVars, linkVars, dlVars, migVars, exVars, fetchVars, rsVars, postVars, seoVars, caseVars>>
notSeo == <<layoutVars, srcVars, normVars, linkVars, dlVars, migVars, exVars, fetchVars, rsVars, postVars, idxVars, caseVars>>
notCases == <<layoutVars, srcVars, normVars, linkVars, dlVars, migVars, exVars, fetchVars, rsVars, postVars, idxVars, seoVars>>

-----------------------------------------------------------------------------
(* Bounds of the model *)

\* pages live at directory depths 0 .. MaxDepth below the site root
MaxDepth == 2
\* number of times main() of a script is run
MaxRuns == 2

-----------------------------------------------------------------------------
(* Python str operations on character sequences *)

StartsWith(s, p) == Len(s) >= Len(p) /\ SubSeq(s, 1, Len(p)) = p

Drop(s, n) == SubSeq(s, n + 1, Len(s))

Whitespace == {" ", "\n", "\t"}

RECURSIVE LStrip(_)
LStrip(s) == IF s # <<>> /\ s[1] \in Whitespace THEN LStrip(Tail(s)) ELSE s

RECURSIVE RStrip(_)
RStrip(s) ==
    IF s # <<>> /\ s[Len(s)] \in Whitespace
    THEN RStrip(SubSeq(s, 1, Len(s) - 1))
    ELSE s

\* str.strip()
Strip(s) == RStrip(LStrip(s))

RECURSIVE Repeat(_, _)
Repeat(s, n) == IF n <= 0 THEN <<>> ELSE s \o Repeat(s, n - 1)

-----------------------------------------------------------------------------
(* HTML nodes.  A node is a record; an attribute that is not set holds     *)
(* Absent (Tag.get returns None).  Text nodes have tag "#text".            *)

Absent == <<"(absent)">>

Mk(tag, id, kids) ==
    [tag |-> tag, id |-> id, attrs |-> {}, rel |-> {}, href |-> Absent,
     src |-> Absent, type |-> Absent, text |-> <<>>, kids |-> kids]

Text(id, s) == [Mk("#text", id, <<>>) EXCEPT !.text = s]

VoidTags == {"img", "link", "meta", "br"}

\* Tag.decode / str(tag): the markup as a stream of tokens
RECURSIVE decode(_)
decode(nodes) ==
    IF nodes = <<>> THEN <<>>
    ELSE LET n == Head(nodes)
             bare == [n EXCEPT !.kids = <<>>]
         IN  (IF n.tag = "#text" THEN <<[k |-> "text", n |-> bare]>>
              ELSE IF n.tag \in VoidTags THEN <<[k |-> "void", n |-> bare]>>
              ELSE <<[k |-> "open", n |-> bare]>> \o decode(n.kids)
                     \o <<[k |-> "close", n |-> bare]>>)
             \o decode(Tail(nodes))

\* adjacent character data becomes one text node
JoinText(n, rest) ==
    IF n.tag = "#text" /\ rest # <<>> /\ rest[1].tag = "#text"
    THEN <<[n EXCEPT !.text = n.text \o rest[1].text]>> \o Tail(rest)
    ELSE <<n>> \o rest

\* BeautifulSoup(markup, "html.parser"): the nodes up to the next close tag
RECURSIVE ParseFrom(_, _)
ParseFrom(tokens, i) ==
    IF i > Len(tokens) THEN [nodes |-> <<>>, next |-> i]
    ELSE LET t == tokens[i] IN
         IF t.k = "close" THEN [nodes |-> <<>>, next |-> i + 1]
         ELSE IF t.k = "open"
         THEN LET inner == ParseFrom(tokens, i + 1)
                  rest == ParseFrom(tokens, inner.next)
              IN  [nodes |-> <<[t.n EXCEPT !.kids = inner.nodes]>> \o rest.nodes,
                   next |-> rest.next]
         ELSE LET rest == ParseFrom(tokens, i + 1)
              IN  [nodes |-> JoinText(t.n, rest.nodes), next |-> rest.next]

html_parser(tokens) == ParseFrom(tokens, 1).nodes

\* BeautifulSoup(str(tag), "html.parser").find(): a detached copy of tag
clone(n) == html_parser(decode(<<n>>))[1]

\* mutant: the composer works on the tag of the template itself
attached(tag) == [tag |-> tag, shares |-> TRUE]

\* the working copy the composer makes of a tag of the template (lines 138,
\* 253, 254): a new object, so what is written to it is not written to tag
detached(tag) == [tag |-> clone(tag), shares |-> FALSE]

\* a tag of the template after `written` was written to its working copy
tag_after(tag, copy, written) == IF copy.shares THEN written ELSE tag

\* soup.find(tag): path from a root to the first match in document order
RECURSIVE FindPath(_, _)
FindPath(nodes, tag) ==
    IF nodes = <<>> THEN <<>>
    ELSE LET n == Head(nodes) IN
         IF n.tag = tag THEN <<n>>
         ELSE LET sub == FindPath(n.kids, tag) IN
              IF sub # <<>> THEN <<n>> \o sub
              ELSE FindPath(Tail(nodes), tag)

\* tag.find_all(name): every descendant element with that name, in document order
RECURSIVE FindAll(_, _)
FindAll(nodes, tag) ==
    IF nodes = <<>> THEN <<>>
    ELSE LET n == Head(nodes) IN
         (IF n.tag = tag THEN <<n>> ELSE <<>>)
         \o FindAll(n.kids, tag) \o FindAll(Tail(nodes), tag)

\* "needle in haystack" on str
Contains(s, sub) ==
    \E i \in 0 .. (Len(s) - Len(sub)) : SubSeq(s, i + 1, i + Len(sub)) = sub

-----------------------------------------------------------------------------
(* String literals used by fix_article_layout.py and by its inputs *)

S_hash == <<"#">>
S_mailto == <<"m","a","i","l","t","o",":">>
S_tel == <<"t","e","l",":">>
S_data == <<"d","a","t","a",":">>
S_javascript == <<"j","a","v","a","s","c","r","i","p","t",":">>
S_slash == <<"/">>
S_http == <<"h","t","t","p",":","/","/">>
S_https == <<"h","t","t","p","s",":","/","/">>
S_dotslash == <<".","/">>
S_up == <<".",".","/">>
S_ldjson == <<"a","p","p","l","i","c","a","t","i","o","n","/","l","d","+","j","s","o","n">>
S_textjs == <<"t","e","x","t","/","j","a","v","a","s","c","r","i","p","t">>
S_tailwindcss == <<"t","a","i","l","w","i","n","d","c","s","s">>
H_index == <<"i","n","d","e","x",".","h","t","m","l">>
H_abs == <<"h","t","t","p","s",":","/","/","h",".","i","o","/","a">>
H_absHttp == <<"h","t","t","p",":","/","/","h",".","i","o">>
H_root == <<"/","c",".","h","t","m","l">>
H_frag == <<"#","t","o","p","o">>
H_mail == <<"m","a","i","l","t","o",":","a","@","b">>
H_tel == <<"t","e","l",":","1","2">>
H_dataUri == <<"d","a","t","a",":","x">>
H_js == <<"j","a","v","a","s","c","r","i","p","t",":","f","(",")">>
H_logo == <<"i","m","g","/","l",".","p","n","g">>
H_priv == <<"p",".","h","t","m","l">>
A_css == <<"c","s","s","/","s",".","c","s","s">>
A_cssDot == <<".","/","c","s","s","/","s",".","c","s","s">>
A_font == <<"h","t","t","p","s",":","/","/","f",".","i","o">>
A_js == <<"j","s","/","t",".","j","s">>
A_styleText == <<"b","{","c",":","d","}">>
A_canon == <<"h","t","t","p","s",":","/","/","s",".","i","o","/">>
P_img == <<"i",".","p","n","g">>
P_link == <<"x",".","h","t","m","l">>
P_js == <<"a",".","j","s">>

-----------------------------------------------------------------------------
(* fix_article_layout.py: the pure helpers *)

normalize_path(value) ==
    LET v == Strip(value)
    IN  IF StartsWith(v, S_dotslash) THEN Drop(v, 2) ELSE v

is_relative_url(url) ==
    /\ url # Absent
    /\ url # <<>>
    /\ \A p \in {S_hash, S_mailto, S_tel, S_data, S_javascript} : ~StartsWith(url, p)
    /\ ~StartsWith(url, S_slash)
    /\ ~(StartsWith(url, S_http) \/ StartsWith(url, S_https))

adjust_relative(value, prefix) ==
    IF value = <<>> THEN value
    ELSE IF ~is_relative_url(value) THEN value
    ELSE prefix \o value

adjust_tag_paths(tag, prefix) ==
    [tag EXCEPT !.href = IF @ # Absent THEN adjust_relative(@, prefix) ELSE @,
                !.src = IF @ # Absent THEN adjust_relative(@, prefix) ELSE @]

\* for tag in root.find_all(True): adjust_tag_paths(tag, prefix)
RECURSIVE AdjustAll(_, _)
AdjustAll(nodes, prefix) ==
    [i \in 1 .. Len(nodes) |->
        IF nodes[i].tag = "#text" THEN nodes[i]
        ELSE [adjust_tag_paths(nodes[i], prefix)
                 EXCEPT !.kids = AdjustAll(nodes[i].kids, prefix)]]

AllowedRel == {"preconnect", "stylesheet", "icon", "apple-touch-icon", "manifest"}

IsAsset(child) ==
    \/ child.tag = "link" /\ child.rel \cap AllowedRel # {}
    \/ child.tag = "script" /\ child.src # Absent /\ child.src # <<>>
    \/ child.tag = "style"

extract_assets(template_head) == SelectSeq(template_head, IsAsset)

\* style.get_text("\n", strip=True)
StyleText(style) == Strip(style.text)

Range(s) == {s[i] : i \in 1 .. Len(s)}

collect_existing_assets(head) ==
    [links |-> {<<l.rel, normalize_path(l.href)>> :
                    l \in {x \in Range(FindAll(head, "link")) : x.href # Absent}},
     scripts |-> {normalize_path(x.src) :
                    x \in {y \in Range(FindAll(head, "script")) : y.src # Absent}},
     styles |-> {StyleText(x) : x \in Range(FindAll(head, "style"))} \ {<<>>}]

RECURSIVE head_assets_loop(_, _, _, _)
head_assets_loop(head, existing, assets, prefix) ==
    IF assets = <<>> THEN head
    ELSE LET cloned == adjust_tag_paths(detached(Head(assets)).tag, prefix)
             rest == Tail(assets)
         IN  IF cloned.tag = "link"
             THEN LET href == normalize_path(IF cloned.href = Absent THEN <<>>
                                             ELSE cloned.href)
                      key == <<cloned.rel, href>>
                  IN  IF key \in existing.links
                      THEN head_assets_loop(head, existing, rest, prefix)
                      ELSE head_assets_loop(Append(head, cloned),
                               [existing EXCEPT !.links = @ \cup {key}], rest, prefix)
             ELSE IF cloned.tag = "script" /\ cloned.src # Absent /\ cloned.src # <<>>
             THEN LET src == normalize_path(cloned.src)
                  IN  IF src \in existing.scripts
                      THEN head_assets_loop(head, existing, rest, prefix)
                      ELSE head_assets_loop(Append(head, cloned),
                               [existing EXCEPT !.scripts = @ \cup {src}], rest, prefix)
             ELSE IF cloned.tag = "style"
             THEN LET text == StyleText(cloned)
                  IN  IF text # <<>> /\ text \in existing.styles
                      THEN head_assets_loop(head, existing, rest, prefix)
                      ELSE head_assets_loop(Append(head, cloned),
                               [existing EXCEPT !.styles =
                                    IF text # <<>> THEN @ \cup {text} ELSE @],
                               rest, prefix)
             ELSE head_assets_loop(head, existing, rest, prefix)

update_head_assets(head, template_assets, prefix) ==
    head_assets_loop(head, collect_existing_assets(head), template_assets, prefix)

\* for node in fragment.contents: new_main.append(node)
\* Tag.append first extracts the node from its parent, so the list the loop
\* iterates (fragment.contents) shrinks by one at every step while the
\* list iterator's index advances by one.
RECURSIVE build_main_loop(_, _, _)
build_main_loop(contents, i, appended) ==
    IF i > Len(contents) THEN appended
    ELSE build_main_loop(SubSeq(contents, 1, i - 1)
                            \o SubSeq(contents, i + 1, Len(contents)),
                         i + 1, Append(appended, contents[i]))

build_main(template_main_attrs, article_content_html) ==
    [Mk("main", 0,
        build_main_loop(html_parser(article_content_html), 1, <<>>))
        EXCEPT !.attrs = template_main_attrs]

Last(s) == s[Len(s)]

\* h1.find_parent(["section", "div"]) or h1.parent, for the path root .. h1
H1Container(path) ==
    LET anc == {i \in 1 .. (Len(path) - 1) : path[i].tag \in {"section", "div"}}
    IN  IF anc # {} THEN path[CHOOSE i \in anc : \A j \in anc : j <= i]
        ELSE path[Len(path) - 1]

\* the roots of the soup: <head> and <body> when the document has them
Roots(doc) ==
    (IF doc.hasHead THEN <<Mk("head", 0, doc.head)>> ELSE <<>>)
    \o (IF doc.hasBody THEN <<doc.body>> ELSE <<>>)

\* returns markup (a token stream)
find_article_content(doc) ==
    LET main == FindPath(Roots(doc), "main")
        article == FindPath(Roots(doc), "article")
        h1 == FindPath(Roots(doc), "h1")
    IN  IF main # <<>> THEN decode(Last(main).kids)
        ELSE IF article # <<>> THEN decode(<<Last(article)>>)
        ELSE IF h1 # <<>> THEN decode(<<H1Container(h1)>>)
        ELSE IF doc.hasBody THEN decode(doc.body.kids)
        ELSE <<>>

NotJsonLd(script) == script.type # S_ldjson

\* mutant: the JSON-LD scripts are carried over too
collect_body_scripts_all(doc) ==
    IF ~doc.hasBody THEN <<>> ELSE FindAll(doc.body.kids, "script")

collect_body_scripts(doc) ==
    IF ~doc.hasBody THEN <<>>
    ELSE SelectSeq(FindAll(doc.body.kids, "script"), NotJsonLd)

has_css(head) ==
    \/ \E l \in Range(FindAll(head, "link")) : "stylesheet" \in l.rel
    \/ FindAll(head, "style") # <<>>
    \/ \E x \in Range(FindAll(head, "script")) :
          x.src # Absent /\ Contains(x.src, S_tailwindcss)

\* mutant: one "../" whatever the depth
PrefixOnce(depth) == IF depth > 0 THEN S_up ELSE <<>>

\* prefix = "../" * depth if depth > 0 else ""
Prefix(depth) == IF depth > 0 THEN Repeat(S_up, depth) ELSE <<>>

-----------------------------------------------------------------------------
(* Inputs of fix_article_layout.py: templates and article pages *)

A(id, href) == [Mk("a", id, <<>>) EXCEPT !.href = href]
Img(id, src) == [Mk("img", id, <<>>) EXCEPT !.src = src]
Link(id, rel, href) == [Mk("link", id, <<>>) EXCEPT !.rel = rel, !.href = href]
ScriptSrc(id, src) == [Mk("script", id, <<>>) EXCEPT !.src = src]
ScriptInline(id, type) ==
    [Mk("script", id, <<>>) EXCEPT !.type = type, !.text = <<"f","(",")">>]
Style(id, text) == [Mk("style", id, <<>>) EXCEPT !.text = text]

TemplateHeader ==
    Mk("header", 110,
       <<A(111, H_index),
         Mk("nav", 112,
            <<A(113, H_abs), A(114, H_root), A(115, H_frag), A(116, H_mail),
              A(117, H_tel), A(118, H_js), A(119, <<>>)>>),
         Img(120, H_logo), Img(121, H_dataUri), Text(122, <<"x">>)>>)

TemplateFooter == Mk("footer", 130, <<A(131, H_priv), A(132, H_absHttp)>>)

\* a template is what main() keeps of blog.html: the children of its head,
\* its header and footer, the attributes of its body and of its main
Templates ==
    <<[head |-> <<Mk("meta", 101, <<>>),
                  Link(102, {"stylesheet"}, A_css),
                  Link(103, {"preconnect"}, A_font),
                  ScriptSrc(104, A_js),
                  Style(105, A_styleText),
                  Link(106, {"canonical"}, A_canon),
                  ScriptInline(107, Absent)>>,
       header |-> TemplateHeader, footer |-> TemplateFooter,
       bodyAttrs |-> {"class=bg-slate-50"}, hasMain |-> TRUE,
       mainAttrs |-> {"class=flex-grow"}],
      [head |-> <<Link(102, {"stylesheet"}, A_cssDot),
                  Style(105, <<>>),
                  Link(108, {"icon"}, Absent),
                  Style(109, A_styleText)>>,
       header |-> TemplateHeader, footer |-> TemplateFooter,
       bodyAttrs |-> {"class=bg-slate-50"}, hasMain |-> TRUE,
       mainAttrs |-> {}],
      [head |-> <<Link(102, {"stylesheet"}, A_css),
                  Style(105, <<" ">> \o A_styleText)>>,
       header |-> Mk("header", 110, <<A(111, H_index)>>),
       footer |-> Mk("footer", 130, <<A(131, H_priv), ScriptSrc(133, P_js)>>),
       bodyAttrs |-> {}, hasMain |-> FALSE, mainAttrs |-> {}]>>

Doc(doctype, hasHead, head, hasBody, kids) ==
    [doctype |-> doctype, hasHead |-> hasHead, head |-> head,
     hasBody |-> hasBody,
     body |-> [Mk("body", 0, kids) EXCEPT !.attrs = {"class=old"}]]

\* the article pages found on disk before the first run
SourceDocs ==
    <<\* a page with <main>: three top-level nodes, a script inside the
      \* article, an inline script and a JSON-LD script after the footer
      Doc(TRUE, TRUE, <<Link(1, {"stylesheet"}, A_css)>>, TRUE,
          <<Mk("header", 2, <<A(3, H_index)>>),
            Mk("main", 4, <<Mk("p", 5, <<A(6, P_link)>>), Img(7, P_img),
                            ScriptSrc(8, P_js)>>),
            Mk("footer", 9, <<>>),
            ScriptInline(10, Absent),
            ScriptInline(11, S_ldjson)>>),
      \* a page with <article> and no <main>
      Doc(TRUE, TRUE, <<>>, TRUE,
          <<Mk("article", 20, <<Mk("h1", 21, <<>>), Mk("p", 22, <<A(23, P_link)>>)>>),
            ScriptInline(24, S_textjs)>>),
      \* a page whose h1 sits in a div
      Doc(FALSE, TRUE, <<Style(30, A_styleText)>>, TRUE,
          <<Mk("div", 31, <<Mk("h1", 32, <<>>), Img(33, P_img)>>),
            Mk("p", 34, <<>>)>>),
      \* a page with no container at all: the whole body is the content
      Doc(TRUE, TRUE, <<>>, TRUE,
          <<Mk("p", 40, <<>>), Text(41, <<"\n">>), Mk("p", 42, <<Img(43, P_img)>>),
            Mk("p", 44, <<A(45, H_abs)>>)>>),
      \* a page whose h1 is a child of body
      Doc(TRUE, TRUE, <<>>, TRUE,
          <<Mk("h1", 50, <<>>), Mk("p", 51, <<>>)>>),
      \* pages without head, without body
      Doc(TRUE, FALSE, <<>>, TRUE, <<Mk("p", 60, <<>>)>>),
      Doc(TRUE, TRUE, <<>>, FALSE, <<>>)>>

Pages == 0 .. MaxDepth

\* depth = len(path.parent.relative_to(ROOT_DIR).parts)
Depth(page) == page

\* path.write_text(soup.decode()) followed by a later read_text and parse
OnDisk(doc) ==
    [doc EXCEPT !.head = html_parser(decode(@)),
                !.body = [@ EXCEPT !.kids = html_parser(decode(@))]]

NoDoc == Doc(FALSE, FALSE, <<>>, FALSE, <<>>)

NoLast == [page |-> -1, content |-> <<>>, scripts |-> <<>>, before |-> NoDoc]

-----------------------------------------------------------------------------
(* fix_article_layout.py: main() *)

\* values of the variables of a script that is not running
Unset == <<"(unset)">>
NoSrc == [src |-> <<>>, bare |-> <<>>, suffix |-> "none"]

LayoutInit ==
    /\ template \in Range(Templates)
    /\ \E offset \in 0 .. (Len(SourceDocs) - 1) :
          files = [p \in Pages |->
                      OnDisk(SourceDocs[((p + offset) % Len(SourceDocs)) + 1])]
    /\ pc = "idle"
    /\ queue = <<>>
    /\ report = [totalArticles |-> 0, fixedOK |-> 0, skipped |-> <<>>,
                 missingCSSAfterFix |-> <<>>]
    /\ reportFile = <<>>
    /\ runs = 0
    /\ composed = [p \in Pages |-> 0]
    /\ firstOut = [p \in Pages |-> NoDoc]
    /\ last = NoLast

\* main() up to the loop: the template is loaded, the pages are listed in
\* sorted order and the report is initialised
StartRun ==
    /\ pc = "idle"
    /\ runs < MaxRuns
    /\ runs' = runs + 1
    /\ pc' = "running"
    /\ queue' = [i \in 1 .. (MaxDepth + 1) |-> i - 1]
    /\ report' = [totalArticles |-> MaxDepth + 1, fixedOK |-> 0, skipped |-> <<>>,
                  missingCSSAfterFix |-> <<>>]
    /\ UNCHANGED <<template, files, reportFile, composed, firstOut, last>>
    /\ UNCHANGED notLayout

\* the composed document for one page (lines 241-271)
Compose(doc, page) ==
    LET prefix == Prefix(Depth(page))
        head == update_head_assets(doc.head, extract_assets(template.head), prefix)
        soup == [doc EXCEPT !.head = head]
        article_content_html == find_article_content(soup)
        body_scripts == collect_body_scripts(soup)
        header_clone == [detached(template.header).tag EXCEPT !.kids = AdjustAll(@, prefix)]
        footer_clone == [detached(template.footer).tag EXCEPT !.kids = AdjustAll(@, prefix)]
        built == build_main(template.mainAttrs, article_content_html)
        new_main == [built EXCEPT !.kids = AdjustAll(@, prefix)]
        new_body == [Mk("body", 0, <<header_clone, new_main, footer_clone>>
                                       \o body_scripts)
                        EXCEPT !.attrs = template.bodyAttrs]
    IN  [soup EXCEPT !.body = new_body]

\* the objects main() keeps of the template (lines 210-220) after a page was
\* composed from them: template_assets, template_header and template_footer
\* are handed to the composer, which writes to working copies of them;
\* template_body_attrs and template_main_attrs are only read
TemplateAfter(t, page) ==
    LET prefix == Prefix(Depth(page))
        asset_after(child) ==
            IF IsAsset(child)
            THEN tag_after(child, detached(child),
                           adjust_tag_paths(detached(child).tag, prefix))
            ELSE child
        block_after(block) ==
            tag_after(block, detached(block),
                      [detached(block).tag EXCEPT !.kids = AdjustAll(@, prefix)])
    IN  [t EXCEPT !.head = [i \in 1 .. Len(t.head) |-> asset_after(t.head[i])],
                  !.header = block_after(t.header),
                  !.footer = block_after(t.footer)]

\* one iteration of the loop over article_paths, for a page with head and body
ProcessPage ==
    /\ pc = "running"
    /\ queue # <<>>
    /\ LET page == Head(queue)
           doc == files[page]
           out == Compose(doc, page)
       IN  /\ doc.hasHead /\ doc.hasBody
           /\ files' = [files EXCEPT ![page] = OnDisk(out)]
           /\ report' = [report EXCEPT
                 !.fixedOK = @ + 1,
                 !.missingCSSAfterFix =
                     IF has_css(out.head) THEN @ ELSE Append(@, page)]
           /\ composed' = [composed EXCEPT ![page] = @ + 1]
           /\ firstOut' = [firstOut EXCEPT
                 ![page] = IF composed[page] = 0 THEN OnDisk(out) ELSE @]
           /\ last' = [page |-> page,
                       content |-> html_parser(find_article_content(doc)),
                       scripts |-> collect_body_scripts(doc),
                       before |-> doc]
           /\ template' = TemplateAfter(template, page)
    /\ queue' = Tail(queue)
    /\ UNCHANGED <<pc, reportFile, runs>>
    /\ UNCHANGED notLayout

\* one iteration of the loop for a page without head or without body
SkipPage ==
    /\ pc = "running"
    /\ queue # <<>>
    /\ LET page == Head(queue)
           doc == files[page]
       IN  /\ ~(doc.hasHead /\ doc.hasBody)
           /\ report' = [report EXCEPT
                 !.skipped = Append(@, [file |-> page, reason |-> "missing head/body"])]
    /\ queue' = Tail(queue)
    /\ UNCHANGED <<template, files, pc, reportFile, runs, composed, firstOut, last>>
    /\ UNCHANGED notLayout

\* after the loop: REPORT_PATH.write_text(json.dumps(report))
FinishRun ==
    /\ pc = "running"
    /\ queue = <<>>
    /\ reportFile' = report
    /\ pc' = "idle"
    /\ UNCHANGED <<template, files, queue, report, runs, composed, firstOut, last>>
    /\ UNCHANGED notLayout

LayoutNext == StartRun \/ ProcessPage \/ SkipPage \/ FinishRun

\* the other scripts are not running
LayoutIdle ==
    /\ template = Templates[1]
    /\ files = [p \in Pages |-> NoDoc]
    /\ pc = "idle"
    /\ queue = <<>>
    /\ report = [totalArticles |-> 0, fixedOK |-> 0, skipped |-> <<>>,
                 missingCSSAfterFix |-> <<>>]
    /\ reportFile = <<>>
    /\ runs = 0
    /\ composed = [p \in Pages |-> 0]
    /\ firstOut = [p \in Pages |-> NoDoc]
    /\ last = NoLast

SrcIdle == srcIn = NoSrc /\ srcOut = Unset

NormZero == [imagesRemovedAsDuplicate |-> 0, coverDuplicatesRemoved |-> 0,
             postsWithChanges |-> <<>>, warnings |-> <<>>]

NormIdle ==
    /\ postsJson = <<>>
    /\ posts = <<>>
    /\ npc = "idle"
    /\ ni = 0
    /\ nreport = NormZero
    /\ nreportFile = <<>>
    /\ nruns = 0
    /\ loaded = <<>>

LinkIdle ==
    /\ anchors = <<>>
    /\ rewriter = "none"
    /\ rewritten = <<>>
    /\ rewrites = 0

DlIdle ==
    /\ image_cache = <<>>
    /\ disk = {}
    /\ baixadas = 0
    /\ dpc = "idle"
    /\ druns = 0
    /\ dcalls = 0
    /\ dhist = <<>>

\* the state before this script runs
MigIdle ==
    /\ mpc = "idle"
    /\ mqueue = <<>>
    /\ mslug = <<>>
    /\ msource = <<>>
    /\ mimgs = <<>>
    /\ mresults = <<>>
    /\ mog = <<>>
    /\ mreport = <<>>
    /\ mreportFile = <<>>
    /\ marticles = <<>>
    /\ mfailed = 0

ExcerptIdle == exFn = "none" /\ exIn = <<>> /\ exOut = Unset

FetchIdle ==
    /\ fFn = "none"
    /\ fpc = "idle"
    /\ fAttempt = 0
    /\ fBackoff = 0
    /\ fSleeps = <<>>
    /\ fOutcomes = <<>>
    /\ fResults = <<>>

RestoreIdle ==
    /\ rpc = "idle"
    /\ rqueue = <<>>
    /\ rfiles = <<>>
    /\ rreport = <<>>
    /\ rreportFile = <<>>
    /\ rlast = <<>>

\* data/posts.json before any migrator wrote it
NoPostsFile == [exists |-> FALSE, records |-> <<>>]

PostsIdle ==
    /\ posts_json = NoPostsFile
    /\ pruns = 0
    /\ plast = <<>>

IndexIdle ==
    /\ iFn = "none"
    /\ ipc = "idle"
    /\ iqueue = <<>>
    /\ ivisited = {}
    /\ ipage = 0
    /\ istreak = 0
    /\ iseen = {}
    /\ iout = <<>>
    /\ ifetched = <<>>
    /\ ihist = <<>>

SeoIdle ==
    /\ seoSoup = <<>>
    /\ seoEnv = <<>>
    /\ seoRuns = 0
    /\ seoLast = <<>>

CasesIdle ==
    /\ cBlocks = <<>>
    /\ cpc = "idle"
    /\ cCases = <<>>
    /\ cUsed = {}
    /\ cSlug = <<>>
    /\ cBase = <<>>
    /\ cCounter = 0

InitLayout == LayoutInit /\ SrcIdle /\ NormIdle /\ LinkIdle /\ DlIdle /\ MigIdle /\ ExcerptIdle /\ FetchIdle /\ RestoreIdle /\ PostsIdle /\ IndexIdle /\ SeoIdle /\ CasesIdle

SpecLayout == InitLayout /\ [][LayoutNext]_vars

-----------------------------------------------------------------------------
(* Claims about fix_article_layout.py, checked under SpecLayout *)

Ids(nodes) == [i \in 1 .. Len(nodes) |-> nodes[i].id]

WithTag(nodes, tag) == SelectSeq(nodes, LAMBDA n : n.tag = tag)

Composed == last.page # -1

LastOut == files[last.page]

\* C1: when a page is composed, the new <main> holds every top-level node
\* of the extracted article markup, in the original order, none dropped.
C1_MainHoldsEveryNode ==
    Composed => Ids(LastOut.body.kids[2].kids) = Ids(last.content)

\* C2: composing an already composed page again appends no template head
\* asset again and leaves the header and footer blocks of the body as they
\* were after the first composition.
C2_SecondRunDuplicatesNothing ==
    \A p \in Pages :
        composed[p] >= 2 =>
            /\ files[p].head = firstOut[p].head
            /\ WithTag(files[p].body.kids, "header")
                  = WithTag(firstOut[p].body.kids, "header")
            /\ WithTag(files[p].body.kids, "footer")
                  = WithTag(firstOut[p].body.kids, "footer")

\* the scripts of a forest in document order
RECURSIVE ScriptsInOrder(_)
ScriptsInOrder(nodes) ==
    IF nodes = <<>> THEN <<>>
    ELSE (IF Head(nodes).tag = "script" THEN <<Head(nodes)>> ELSE <<>>)
         \o ScriptsInOrder(Head(nodes).kids) \o ScriptsInOrder(Tail(nodes))

\* C3: the composed body carries the template's body attributes and its
\* children are the template header, the <main> wrapper with the template's
\* main attributes, the template footer, then every script of the source
\* body in document order except the application/ld+json ones.
C3_BodyOrder ==
    Composed =>
        LET body == LastOut.body
            carried == SelectSeq(ScriptsInOrder(last.before.body.kids),
                                 LAMBDA x : x.type # S_ldjson)
        IN  /\ body.attrs = template.bodyAttrs
            /\ Len(body.kids) = 3 + Len(carried)
            /\ body.kids[1].tag = "header" /\ body.kids[1].id = template.header.id
            /\ body.kids[2].tag = "main" /\ body.kids[2].attrs = template.mainAttrs
            /\ body.kids[3].tag = "footer" /\ body.kids[3].id = template.footer.id
            /\ SubSeq(body.kids, 4, Len(body.kids)) = carried

\* C3 witness: a composed page whose source body held a JSON-LD script and
\* another script
C3_Witness ==
    /\ Composed
    /\ \E x \in Range(ScriptsInOrder(last.before.body.kids)) : x.type = S_ldjson
    /\ Len(LastOut.body.kids) > 3

\* the href and src values of a forest, in document order
RECURSIVE Refs(_)
Refs(nodes) ==
    IF nodes = <<>> THEN <<>>
    ELSE LET n == Head(nodes) IN
         (IF n.href # Absent THEN <<n.href>> ELSE <<>>)
         \o (IF n.src # Absent THEN <<n.src>> ELSE <<>>)
         \o Refs(n.kids) \o Refs(Tail(nodes))

\* a reference that is none of: empty, absolute (http:// or https://),
\* root-relative, "#", mailto:, tel:, data:, javascript:
IsRelativeRef(v) ==
    /\ v # <<>>
    /\ ~\E p \in {S_http, S_https, S_slash, S_hash, S_mailto, S_tel, S_data,
                  S_javascript} : StartsWith(v, p)

ExpectedRef(v, d) == IF IsRelativeRef(v) THEN Repeat(S_up, d) \o v ELSE v

ExpectedRefs(block, d) ==
    [i \in 1 .. Len(Refs(block.kids)) |-> ExpectedRef(Refs(block.kids)[i], d)]

\* C4: in every composed page at depth d, each relative href/src of the
\* header and footer is the template's value prefixed with exactly d copies
\* of "../", and every other reference is the template's value; whatever
\* was composed before and however often the page was composed.
C4_HeaderFooterDepthPrefix ==
    \A p \in Pages :
        composed[p] >= 1 =>
            /\ Refs(files[p].body.kids[1].kids) = ExpectedRefs(template.header, Depth(p))
            /\ Refs(files[p].body.kids[3].kids) = ExpectedRefs(template.footer, Depth(p))

\* C4 witness: a page two levels down, composed a second time after other
\* pages, whose header link reads ../../index.html
C4_Witness ==
    \E p \in Pages :
        /\ Depth(p) = 2
        /\ composed[p] >= 2
        /\ \E q \in Pages : q # p /\ composed[q] >= 1
        /\ S_up \o S_up \o H_index \in Range(Refs(files[p].body.kids[1].kids))
        /\ H_abs \in Range(Refs(files[p].body.kids[1].kids))

-----------------------------------------------------------------------------
(* More Python str operations *)

LowerCase == <<"a","b","c","d","e","f","g","h","i","j","k","l","m","n","o","p","q","r","s","t","u","v","w","x","y","z">>
UpperCase == <<"A","B","C","D","E","F","G","H","I","J","K","L","M","N","O","P","Q","R","S","T","U","V","W","X","Y","Z">>
Digits == {"0","1","2","3","4","5","6","7","8","9"}

LowerOf == [u \in Range(UpperCase) |->
               LowerCase[CHOOSE i \in 1 .. Len(UpperCase) : UpperCase[i] = u]]
UpperOf == [l \in Range(LowerCase) |->
               UpperCase[CHOOSE i \in 1 .. Len(LowerCase) : LowerCase[i] = l]]

LowerChar(c) == IF c \in DOMAIN LowerOf THEN LowerOf[c] ELSE c
UpperChar(c) == IF c \in DOMAIN UpperOf THEN UpperOf[c] ELSE c

\* str.lower(), str.upper()
Lower(s) == [i \in 1 .. Len(s) |-> LowerChar(s[i])]
Upper(s) == [i \in 1 .. Len(s) |-> UpperChar(s[i])]

IsLetter(c) == c \in DOMAIN LowerOf \/ c \in DOMAIN UpperOf
\* [a-z0-9] under re.IGNORECASE
IsAlnum(c) == IsLetter(c) \/ c \in Digits

RECURSIVE IndexFrom(_, _, _)
IndexFrom(s, c, i) ==
    IF i > Len(s) THEN 0 ELSE IF s[i] = c THEN i ELSE IndexFrom(s, c, i + 1)

\* str.find(c) + 1: the first position of character c, 0 when there is none
IndexOf(s, c) == IndexFrom(s, c, 1)

RECURSIVE IndexBack(_, _, _)
IndexBack(s, c, i) ==
    IF i < 1 THEN 0 ELSE IF s[i] = c THEN i ELSE IndexBack(s, c, i - 1)

\* str.rfind(c) + 1
LastIndexOf(s, c) == IndexBack(s, c, Len(s))

\* s.split(c, 1)[0]
Before(s, c) ==
    LET i == IndexOf(s, c) IN IF i = 0 THEN s ELSE SubSeq(s, 1, i - 1)

\* s.split(c)
RECURSIVE Split(_, _)
Split(s, c) ==
    LET i == IndexOf(s, c) IN
    IF i = 0 THEN <<s>>
    ELSE <<SubSeq(s, 1, i - 1)>> \o Split(Drop(s, i), c)

\* c.join(parts)
RECURSIVE Join(_, _)
Join(parts, c) ==
    IF parts = <<>> THEN <<>>
    ELSE IF Len(parts) = 1 THEN parts[1]
    ELSE parts[1] \o <<c>> \o Join(Tail(parts), c)

\* s.replace(a, b) for single characters
Replace(s, a, b) == [i \in 1 .. Len(s) |-> IF s[i] = a THEN b ELSE s[i]]

\* s.lstrip(c), s.rstrip(c), s.strip(c) for one character
RECURSIVE LStripChar(_, _)
LStripChar(s, c) == IF s # <<>> /\ s[1] = c THEN LStripChar(Tail(s), c) ELSE s

RECURSIVE RStripChar(_, _)
RStripChar(s, c) ==
    IF s # <<>> /\ s[Len(s)] = c THEN RStripChar(SubSeq(s, 1, Len(s) - 1), c) ELSE s

StripChar(s, c) == RStripChar(LStripChar(s, c), c)

-----------------------------------------------------------------------------
(* urllib.parse.urlparse *)

SchemeChars == DOMAIN LowerOf \cup DOMAIN UpperOf \cup Digits \cup {"+", "-", "."}

\* the end of the netloc: the first of "/", "?", "#" (1-based), or the end
NetlocEnd(s) ==
    LET stops == {i \in 1 .. Len(s) : s[i] \in {"/", "?", "#"}}
    IN  IF stops = {} THEN Len(s) + 1
        ELSE CHOOSE i \in stops : \A j \in stops : i <= j

\* urlparse splits ";params" off the last path segment
SplitParams(path) ==
    LET from == LastIndexOf(path, "/")
        semis == {i \in (from + 1) .. Len(path) : path[i] = ";"}
    IN  IF semis = {} THEN path
        ELSE SubSeq(path, 1, (CHOOSE i \in semis : \A j \in semis : i <= j) - 1)

urlparse(url) ==
    LET colon == IndexOf(url, ":")
        hasScheme == /\ colon > 1
                     /\ IsLetter(url[1])
                     /\ \A i \in 1 .. (colon - 1) : url[i] \in SchemeChars
        scheme == IF hasScheme THEN Lower(SubSeq(url, 1, colon - 1)) ELSE <<>>
        rest == IF hasScheme THEN Drop(url, colon) ELSE url
        hasNetloc == StartsWith(rest, <<"/", "/">>)
        afterSlashes == Drop(rest, 2)
        netloc == IF hasNetloc
                  THEN SubSeq(afterSlashes, 1, NetlocEnd(afterSlashes) - 1)
                  ELSE <<>>
        rest2 == IF hasNetloc THEN Drop(afterSlashes, NetlocEnd(afterSlashes) - 1)
                 ELSE rest
    IN  [scheme |-> scheme, netloc |-> netloc,
         path |-> SplitParams(Before(Before(rest2, "#"), "?"))]

-----------------------------------------------------------------------------
(* normalize_posts_content.py: normalize_src *)

S_fcge == <<"f","c","g","e","/">>
S_scaled == <<"s","c","a","l","e","d">>
S_rotated == <<"r","o","t","a","t","e","d">>

\* {12,} in HASH_SUFFIX_RE
HashMinLen == 12

\* posixpath.normpath: the loop over the components
RECURSIVE norm_comps(_, _, _)
norm_comps(comps, initial_slashes, new_comps) ==
    IF comps = <<>> THEN new_comps
    ELSE LET comp == Head(comps) IN
         IF comp = <<>> \/ comp = <<".">>
         THEN norm_comps(Tail(comps), initial_slashes, new_comps)
         ELSE IF \/ comp # <<".", ".">>
                 \/ (initial_slashes = 0 /\ new_comps = <<>>)
                 \/ (new_comps # <<>> /\ Last(new_comps) = <<".", ".">>)
         THEN norm_comps(Tail(comps), initial_slashes, Append(new_comps, comp))
         ELSE IF new_comps # <<>>
         THEN norm_comps(Tail(comps), initial_slashes,
                         SubSeq(new_comps, 1, Len(new_comps) - 1))
         ELSE norm_comps(Tail(comps), initial_slashes, new_comps)

\* posixpath.normpath
normpath(path) ==
    IF path = <<>> THEN <<".">>
    ELSE LET initial_slashes ==
                 IF ~StartsWith(path, <<"/">>) THEN 0
                 ELSE IF StartsWith(path, <<"/", "/">>)
                         /\ ~StartsWith(path, <<"/", "/", "/">>) THEN 2
                 ELSE 1
             joined == Join(norm_comps(Split(path, "/"), initial_slashes, <<>>), "/")
             out == Repeat(<<"/">>, initial_slashes) \o joined
         IN  IF out = <<>> THEN <<".">> ELSE out

\* the position of the "." of a trailing ".ext" ((?=\.[a-z0-9]+$)), or 0
ExtDot(filename) ==
    LET d == LastIndexOf(filename, ".")
    IN  IF d > 0 /\ d < Len(filename)
           /\ \A i \in (d + 1) .. Len(filename) : IsAlnum(filename[i])
        THEN d ELSE 0

\* the text between the last "-" of the stem and the extension
SuffixToken(filename) ==
    LET stem == SubSeq(filename, 1, ExtDot(filename) - 1)
    IN  Drop(stem, LastIndexOf(stem, "-"))

HasSuffixToken(filename) ==
    /\ ExtDot(filename) > 0
    /\ LastIndexOf(SubSeq(filename, 1, ExtDot(filename) - 1), "-") > 0

\* RE.sub("", filename) for a pattern "-<token>(?=\.[a-z0-9]+$)"
DropSuffixToken(filename) ==
    LET d == ExtDot(filename)
        stem == SubSeq(filename, 1, d - 1)
    IN  SubSeq(stem, 1, LastIndexOf(stem, "-") - 1) \o Drop(filename, d - 1)

\* \d+x\d+ under re.IGNORECASE
IsSizeToken(t) ==
    \E k \in 2 .. (Len(t) - 1) :
        /\ t[k] \in {"x", "X"}
        /\ \A i \in 1 .. (k - 1) : t[i] \in Digits
        /\ \A i \in (k + 1) .. Len(t) : t[i] \in Digits

\* (scaled|rotated) under re.IGNORECASE
IsScaledToken(t) == Lower(t) \in {S_scaled, S_rotated}

\* [a-z0-9]{12,} under re.IGNORECASE
IsHashToken(t) == Len(t) >= HashMinLen /\ \A i \in 1 .. Len(t) : IsAlnum(t[i])

SIZE_SUFFIX_RE_sub(filename) ==
    IF HasSuffixToken(filename) /\ IsSizeToken(SuffixToken(filename))
    THEN DropSuffixToken(filename) ELSE filename

SCALED_SUFFIX_RE_sub(filename) ==
    IF HasSuffixToken(filename) /\ IsScaledToken(SuffixToken(filename))
    THEN DropSuffixToken(filename) ELSE filename

HASH_SUFFIX_RE_sub(filename) ==
    IF HasSuffixToken(filename) /\ IsHashToken(SuffixToken(filename))
    THEN DropSuffixToken(filename) ELSE filename

RECURSIVE StripLeading(_, _)
\* while path.startswith(p): path = path[len(p):]
StripLeading(path, p) ==
    IF StartsWith(path, p) THEN StripLeading(Drop(path, Len(p)), p) ELSE path

\* mutant: the generated size suffix is kept
strip_suffixes_keep_size(filename) ==
    HASH_SUFFIX_RE_sub(SCALED_SUFFIX_RE_sub(filename))

\* lines 54-56: the three substitutions on the file name
strip_suffixes(filename) ==
    HASH_SUFFIX_RE_sub(SCALED_SUFFIX_RE_sub(SIZE_SUFFIX_RE_sub(filename)))

\* lines 51-60: the suffixes are stripped from the last segment
strip_filename(path) ==
    IF path = <<>> THEN <<>>
    ELSE LET parts == Split(path, "/")
         IN  Lower(Join([parts EXCEPT ![Len(parts)] = strip_suffixes(@)], "/"))

\* lines 47-49
normpath_or_empty(path) == IF path = <<".">> THEN <<>> ELSE path

\* lines 44-45
strip_fcge(path) == IF StartsWith(Lower(path), S_fcge) THEN Drop(path, 5) ELSE path

normalize_src(src) ==
    IF src = Absent \/ src = <<>> THEN <<>>
    ELSE LET raw == Strip(src) IN
         IF StartsWith(raw, S_data) THEN <<>>
         ELSE LET parsed == urlparse(raw)
                  p0 == IF parsed.scheme # <<>> \/ parsed.netloc # <<>>
                        THEN parsed.path ELSE raw
                  p1 == Replace(Before(Before(p0, "?"), "#"), "\\", "/")
                  p2 == StripLeading(p1, S_dotslash)
                  p3 == StripLeading(p2, S_up)
                  p4 == LStripChar(p3, "/")
              IN  strip_filename(normpath_or_empty(normpath(strip_fcge(p4))))

-----------------------------------------------------------------------------
(* normalize_src applied to the renditions of one image *)

N_photo == <<"p","h","o","t","o">>
N_mypic == <<"m","y","-","p","i","c">>
N_planejamento == <<"f","o","t","o","-","p","l","a","n","e","j","a","m","e","n","t","o">>
N_size == <<"-","1","2","0","0","x","8","0","0">>
N_hash == <<"-","a","1","b","2","c","3","d","4","e","5","f","6">>
N_jpg == <<".","j","p","g">>
N_wp == <<"w","p","/">>
N_host == <<"h","t","t","p","s",":","/","/","c","d","n",".","i","o","/">>
N_query == <<"?","v","=","1">>
N_frag == <<"#","f">>

Stems == {N_photo, N_mypic, N_planejamento}
Dirs == {<<>>, N_wp}
Suffixes == [none |-> <<>>, size |-> N_size, scaled |-> <<"-">> \o S_scaled,
             rotated |-> <<"-">> \o S_rotated, hash |-> N_hash,
             sizeScaled |-> N_size \o <<"-">> \o S_scaled,
             scaledSize |-> <<"-">> \o S_scaled \o N_size]
Tails == {<<>>, N_query, N_frag}
LeadingPrefixes == {<<>>, S_dotslash, S_up, S_slash, S_fcge, N_host}

\* one reference to the image dir/stem.jpg: the rendition's suffix before the
\* extension, optionally upper-cased, behind a prefix and before a query or
\* fragment; bare is the plain lower-case file it is a rendition of
Rendition(prefix, dir, stem, suffix, upper, tail) ==
    LET name == prefix \o dir \o stem \o Suffixes[suffix] \o N_jpg
    IN  [src |-> (IF upper THEN Upper(name) ELSE name) \o tail,
         bare |-> dir \o stem \o N_jpg,
         suffix |-> suffix]

SrcInit ==
    /\ \E prefix \in LeadingPrefixes, dir \in Dirs, stem \in Stems,
          suffix \in DOMAIN Suffixes, upper \in BOOLEAN, tail \in Tails :
          srcIn = Rendition(prefix, dir, stem, suffix, upper, tail)
    /\ srcOut = Unset

\* norm = normalize_src(src)
NormalizeSrc ==
    /\ srcOut = Unset
    /\ srcOut' = normalize_src(srcIn.src)
    /\ UNCHANGED srcIn
    /\ UNCHANGED notSrc

SrcNext == NormalizeSrc

\* the state before this script runs
InitNormalizeSrc == SrcInit /\ LayoutIdle /\ NormIdle /\ LinkIdle /\ DlIdle /\ MigIdle /\ ExcerptIdle /\ FetchIdle /\ RestoreIdle /\ PostsIdle /\ IndexIdle /\ SeoIdle /\ CasesIdle

SpecNormalizeSrc == InitNormalizeSrc /\ [][SrcNext]_vars

\* C6: every rendition of an image (generated suffix, any letter case, query
\* or fragment, leading "./", "../", "/" or "fcge/") gets the dedup key of
\* the plain lower-case file
C6_RenditionsShareKey ==
    srcOut # Unset => srcOut = normalize_src(srcIn.bare)

-----------------------------------------------------------------------------
(* normalize_posts_content.py: the tree operations of normalize_post *)

\* the BeautifulSoup object itself: the parent of the top-level nodes
Document(contents) == Mk("[document]", -1, contents)
NoNode == Mk("(none)", -2, <<>>)

\* node.parent, given the tag that encloses nodes
RECURSIVE ParentOf(_, _, _)
ParentOf(nodes, id, parent) ==
    IF nodes = <<>> THEN NoNode
    ELSE LET n == Head(nodes) IN
         IF n.id = id THEN parent
         ELSE LET sub == ParentOf(n.kids, id, n) IN
              IF sub # NoNode THEN sub ELSE ParentOf(Tail(nodes), id, parent)

Parent(soup, id) == ParentOf(soup, id, Document(soup))

\* the node with that identity if it is still in the tree
RECURSIVE NodeById(_, _)
NodeById(nodes, id) ==
    IF nodes = <<>> THEN <<>>
    ELSE LET n == Head(nodes) IN
         IF n.id = id THEN <<n>>
         ELSE NodeById(n.kids, id) \o NodeById(Tail(nodes), id)

\* the tree with the node of that identity replaced by the nodes repl:
\* <<>> for decompose(), a new tag around it for wrap()
RECURSIVE ReplaceId(_, _, _)
ReplaceId(nodes, id, repl) ==
    IF nodes = <<>> THEN <<>>
    ELSE LET n == Head(nodes) IN
         (IF n.id = id THEN repl
          ELSE <<[n EXCEPT !.kids = ReplaceId(n.kids, id, repl)]>>)
         \o ReplaceId(Tail(nodes), id, repl)

is_blank(node) == node.tag = "#text" /\ Strip(node.text) = <<>>

NotBlank(node) == ~is_blank(node)

\* cleanup_container(node) for the node of that identity; nothing happens
\* for the document, for a node that was decomposed and for other tags
cleanup_container(soup, id) ==
    LET found == NodeById(soup, id) IN
    IF found = <<>> THEN soup
    ELSE IF found[1].tag \notin {"a", "figure"} THEN soup
    ELSE IF SelectSeq(found[1].kids, NotBlank) = <<>>
    THEN ReplaceId(soup, id, <<>>)
    ELSE soup

remove_image(soup, img) ==
    LET parent == Parent(soup, img)
        decomposed == ReplaceId(soup, img, <<>>)
        cleaned == cleanup_container(decomposed, parent.id)
    IN  IF parent.tag = "figure" THEN cleanup_container(cleaned, parent.id)
        ELSE cleaned

\* multi-valued class attribute: one element of attrs per class
PostFigure == "class=post-figure"

wrap_image(soup, img) ==
    LET parent == Parent(soup, img)
        meaningful == SelectSeq(parent.kids, NotBlank)
        wrap_target == IF /\ parent.tag = "a"
                          /\ Len(meaningful) = 1
                          /\ meaningful[1].id = img
                       THEN parent.id ELSE img
        existing_figure == Parent(soup, wrap_target)
    IN  IF existing_figure.tag = "figure"
        THEN ReplaceId(soup, existing_figure.id,
                 <<[existing_figure EXCEPT !.attrs = @ \cup {PostFigure}]>>)
        ELSE ReplaceId(soup, wrap_target,
                 <<[Mk("figure", 100 + wrap_target, NodeById(soup, wrap_target))
                       EXCEPT !.attrs = {PostFigure}]>>)

\* iter_images as identities, in document order
RECURSIVE NodeIds(_)
NodeIds(nodes) == IF nodes = <<>> THEN <<>> ELSE <<Head(nodes).id>> \o NodeIds(Tail(nodes))

iter_images(soup) == NodeIds(FindAll(soup, "img"))

\* mutant: the images already seen are not remembered
seen_add_nothing(seen, norm) == seen

\* seen.add(norm)
seen_add(seen, norm) == seen \cup {norm}

\* lines 131-144: the removal loop over the snapshot of the images
RECURSIVE dedup_loop(_, _, _, _)

\* lines 134-144 for one image whose normalized path is norm
dedup_step(imgs, cover_norm, seen, acc, norm) ==
    IF norm = <<>>
    THEN dedup_loop(Tail(imgs), cover_norm, seen, acc)
    ELSE IF cover_norm # <<>> /\ norm = cover_norm
    THEN dedup_loop(Tail(imgs), cover_norm, seen,
             [acc EXCEPT !.soup = remove_image(acc.soup, Head(imgs)),
                         !.removed_cover = @ + 1])
    ELSE IF norm \in seen
    THEN dedup_loop(Tail(imgs), cover_norm, seen,
             [acc EXCEPT !.soup = remove_image(acc.soup, Head(imgs)),
                         !.removed_duplicates = @ + 1])
    ELSE dedup_loop(Tail(imgs), cover_norm, seen_add(seen, norm), acc)

dedup_loop(imgs, cover_norm, seen, acc) ==
    IF imgs = <<>> THEN acc
    ELSE dedup_step(imgs, cover_norm, seen, acc,
                    normalize_src(NodeById(acc.soup, Head(imgs))[1].src))

LoadingAttrs == {"loading=lazy", "loading=eager", "decoding=async", "decoding=sync"}

\* lines 146-149
RECURSIVE lazy_wrap_loop(_, _)
lazy_wrap_loop(imgs, soup) ==
    IF imgs = <<>> THEN soup
    ELSE LET img == Head(imgs)
             node == NodeById(soup, img)[1]
             lazy == [node EXCEPT !.attrs = (@ \ LoadingAttrs)
                                      \cup {"loading=lazy", "decoding=async"}]
         IN  lazy_wrap_loop(Tail(imgs), wrap_image(ReplaceId(soup, img, <<lazy>>), img))

\* lines 151-152
RECURSIVE rename_h1(_)
rename_h1(nodes) ==
    IF nodes = <<>> THEN <<>>
    ELSE LET n == Head(nodes) IN
         <<[n EXCEPT !.tag = IF @ = "h1" THEN "h3" ELSE @,
                     !.kids = rename_h1(@)]>> \o rename_h1(Tail(nodes))

\* new_html.strip() is empty
BlankHtml(tokens) == \A i \in 1 .. Len(tokens) : tokens[i].k = "text" /\ Strip(tokens[i].n.text) = <<>>

\* lines 154-165, given the serialised tree
post_result(post, deduped, new_html) ==
    LET slug == post.slug
        changed == new_html # post.contentHtml
        warnings ==
            (IF post.coverImagePath = <<>>
             THEN <<[slug |-> slug, what |-> "missing coverImagePath"]>> ELSE <<>>)
            \o (IF BlankHtml(new_html)
                THEN <<[slug |-> slug, what |-> "empty contentHtml"]>> ELSE <<>>)
            \o (IF \A i \in 1 .. Len(new_html) : new_html[i].n.tag # "img"
                THEN <<[slug |-> slug, what |-> "no images in contentHtml"]>> ELSE <<>>)
    IN  [post |-> IF changed THEN [post EXCEPT !.contentHtml = new_html] ELSE post,
         slug |-> slug,
         removed_duplicates |-> deduped.removed_duplicates,
         removed_cover |-> deduped.removed_cover,
         changed |-> changed,
         warnings |-> warnings]

\* lines 146-154, given the outcome of the removal loop
post_wrap(post, deduped) ==
    post_result(post, deduped,
        decode(rename_h1(lazy_wrap_loop(iter_images(deduped.soup), deduped.soup))))

normalize_post(post) ==
    post_wrap(post,
        dedup_loop(iter_images(html_parser(post.contentHtml)),
                   normalize_src(post.coverImagePath), {},
                   [soup |-> html_parser(post.contentHtml),
                    removed_duplicates |-> 0, removed_cover |-> 0]))

-----------------------------------------------------------------------------
(* normalize_posts_content.py: main over generated posts *)

\* images per generated article body
MaxImgs == 3

I_photo == <<"i","m","g","/","p","h","o","t","o",".","j","p","g">>
I_photoSized == <<".",".","/","i","m","g","/","P","h","o","t","o","-","1","2","0","0","x","8","0","0",".","J","P","G","?","v","=","1">>
I_chart == <<"i","m","g","/","c","h","a","r","t",".","p","n","g">>
I_chartScaled == <<"/","f","c","g","e","/","i","m","g","/","c","h","a","r","t","-","s","c","a","l","e","d",".","p","n","g">>
I_inline == <<"d","a","t","a",":","i","m","a","g","e","/","p","n","g",";","b","a","s","e","6","4",",","A","A","A","A">>
I_coverPhoto == <<"f","c","g","e","/","i","m","g","/","p","h","o","t","o","-","s","c","a","l","e","d",".","j","p","g">>
I_coverOther == <<"i","m","g","/","c","o","v","e","r",".","j","p","g">>

ImgSrcs == {I_photo, I_photoSized, I_chartScaled, I_inline, Absent}
CoverPaths == {<<>>, I_coverPhoto, I_coverOther}

BodyImg(k, src) == [Mk("img", k, <<>>) EXCEPT !.src = src]

\* the k-th image of a body in the markup migrated articles carry: bare,
\* inside a link, inside a figure around a link, inside a captioned figure
Slot(k, src) ==
    CASE k % 4 = 1 -> BodyImg(k, src)
      [] k % 4 = 2 -> [Mk("a", 10 * k + 1, <<BodyImg(k, src)>>) EXCEPT !.href = I_photo]
      [] k % 4 = 3 -> Mk("figure", 10 * k + 2,
                         <<[Mk("a", 10 * k + 1, <<BodyImg(k, src), Text(10 * k + 3, <<" ">>)>>)
                               EXCEPT !.href = I_chart],
                           Text(10 * k + 4, <<"\n">>)>>)
      [] OTHER     -> Mk("figure", 10 * k + 2,
                         <<BodyImg(k, src),
                           Mk("figcaption", 10 * k + 5, <<Text(10 * k + 6, <<"c">>)>>)>>)

\* contentHtml: a heading, then a slot per image with text between them
Body(srcs) ==
    <<Mk("h1", 90, <<Text(91, <<"t">>)>>)>>
    \o [i \in 1 .. (2 * Len(srcs)) |->
           IF i % 2 = 1 THEN Slot((i + 1) \div 2, srcs[(i + 1) \div 2])
           ELSE Text(91 + i, <<"p">>)]

Reverse(q) == [i \in 1 .. Len(q) |-> q[Len(q) + 1 - i]]

NewPost(slug, srcs, cover) ==
    [slug |-> slug, contentHtml |-> decode(Body(srcs)), coverImagePath |-> cover]

RECURSIVE SeqsOf(_, _)
\* the sequences of length n over the set S
SeqsOf(S, n) ==
    IF n = 0 THEN {<<>>}
    ELSE {Append(q, x) : q \in SeqsOf(S, n - 1), x \in S}

NormInit ==
    /\ \E srcs \in SeqsOf(ImgSrcs, MaxImgs), cover \in CoverPaths :
          postsJson = <<NewPost("post-a", srcs, cover),
                        NewPost("post-b", Reverse(srcs), <<>>)>>
    /\ posts = <<>>
    /\ npc = "idle"
    /\ ni = 0
    /\ nreport = NormZero
    /\ nreportFile = <<>>
    /\ nruns = 0
    /\ loaded = <<>>

\* main(), lines 169-173
NormStart ==
    /\ npc = "idle"
    /\ nruns < MaxRuns
    /\ nruns' = nruns + 1
    /\ posts' = postsJson
    /\ loaded' = postsJson
    /\ nreport' = NormZero
    /\ ni' = 1
    /\ npc' = "running"
    /\ UNCHANGED <<postsJson, nreportFile>>
    /\ UNCHANGED notNorm

\* main(), lines 175-181: one iteration of the loop
NormalizePost ==
    /\ npc = "running"
    /\ ni <= Len(posts)
    /\ \E r \in {normalize_post(posts[ni])} :
          /\ posts' = [posts EXCEPT ![ni] = r.post]
          /\ nreport' =
                [imagesRemovedAsDuplicate |->
                     nreport.imagesRemovedAsDuplicate + r.removed_duplicates,
                 coverDuplicatesRemoved |->
                     nreport.coverDuplicatesRemoved + r.removed_cover,
                 postsWithChanges |->
                     IF r.changed THEN Append(nreport.postsWithChanges, r.slug)
                     ELSE nreport.postsWithChanges,
                 warnings |-> nreport.warnings \o r.warnings]
    /\ ni' = ni + 1
    /\ UNCHANGED <<postsJson, npc, nreportFile, nruns, loaded>>
    /\ UNCHANGED notNorm

\* main(), lines 183-195: posts.json and the report are written
NormFinish ==
    /\ npc = "running"
    /\ ni > Len(posts)
    /\ postsJson' = posts
    /\ nreportFile' = <<[totalPosts |-> Len(posts),
                         imagesRemovedAsDuplicate |-> nreport.imagesRemovedAsDuplicate,
                         coverDuplicatesRemoved |-> nreport.coverDuplicatesRemoved,
                         postsWithChanges |-> nreport.postsWithChanges,
                         warnings |-> nreport.warnings]>>
    /\ npc' = "idle"
    /\ UNCHANGED <<posts, ni, nreport, nruns, loaded>>
    /\ UNCHANGED notNorm

NormNext == NormStart \/ NormalizePost \/ NormFinish

\* the state before this script runs
InitNormalize == NormInit /\ LayoutIdle /\ SrcIdle /\ LinkIdle /\ DlIdle /\ MigIdle /\ ExcerptIdle /\ FetchIdle /\ RestoreIdle /\ PostsIdle /\ IndexIdle /\ SeoIdle /\ CasesIdle

SpecNormalize == InitNormalize /\ [][NormNext]_vars

-----------------------------------------------------------------------------
(* Claims about normalize_post *)

ImagesOf(post) == FindAll(html_parser(post.contentHtml), "img")

\* the normalized paths of a list of images
Keys(imgs) == [j \in 1 .. Len(imgs) |-> normalize_src(imgs[j].src)]

\* the images of the loaded post that normalize_post is to keep: those
\* without a normalized path, and the first of each normalized path that is
\* not the cover's
KeptOf(before, key, cover_norm) ==
    {before[j].id : j \in {j \in 1 .. Len(before) :
        \/ key[j] = <<>>
        \/ /\ ~(cover_norm # <<>> /\ key[j] = cover_norm)
           /\ \A e \in 1 .. (j - 1) : key[e] # key[j]}}

KeptIds(before, cover_norm) == KeptOf(before, Keys(before), cover_norm)

\* the posts the running (or last) loop has already normalized
Normalized == {i \in 1 .. Len(posts) : i < ni}

C5_Holds(after, key, cover_norm, kept) ==
    /\ \A a, b \in 1 .. Len(after) :
          a # b /\ key[a] # <<>> => key[a] # key[b]
    /\ cover_norm # <<>> => \A a \in 1 .. Len(after) : key[a] # cover_norm
    /\ {after[a].id : a \in 1 .. Len(after)} = kept
    /\ Len(after) = Cardinality(kept)

C5_KeptOf(after, before, cover_norm) ==
    C5_Holds(after, Keys(after), cover_norm, KeptIds(before, cover_norm))

\* C5: after normalize_post no two images of the body share a non-empty
\* normalized path, none has the cover's normalized path, and exactly the
\* first image of every other normalized path is kept
C5_NoDuplicateNoCover ==
    \A i \in Normalized :
        C5_KeptOf(ImagesOf(posts[i]), ImagesOf(loaded[i]),
                  normalize_src(loaded[i].coverImagePath))

\* both images with the cover's path were removed from the first post, and
\* the second of two renditions of one image from the second
C5_Witness ==
    /\ npc = "running" /\ ni = 3 /\ nruns = 1
    /\ Len(ImagesOf(loaded[1])) = 3 /\ Len(ImagesOf(posts[1])) = 1
    /\ nreport.coverDuplicatesRemoved = 2
    /\ Len(ImagesOf(loaded[2])) = 3 /\ Len(ImagesOf(posts[2])) = 2
    /\ nreport.imagesRemovedAsDuplicate = 1

-----------------------------------------------------------------------------
(* rewrite_internal_links: migrar_blog_fcge.py, seo_audit_and_fix.py,      *)
(* restore_article_content.py                                              *)

S_domain == <<"f","c","g","e","s","t","a","o","e","s","t","r","a","t","e","g","i","c","a",".","c","o","m",".","b","r">>
S_artigo == <<"a","r","t","i","g","o","-">>
S_html == <<".","h","t","m","l">>
S_slashBlog == <<"/","b","l","o","g">>
S_blog == <<"b","l","o","g">>
S_contato == <<"c","o","n","t","a","t","o">>
S_servicos == <<"s","e","r","v","i","c","o","s">>
S_servicosCedilha == <<"s","e","r","v","i","ç","o","s">>
S_quemSomos == <<"q","u","e","m","-","s","o","m","o","s">>
S_sobre == <<"s","o","b","r","e">>
S_cases == <<"c","a","s","e","s">>
S_produtosdigitais == <<"p","r","o","d","u","t","o","s","d","i","g","i","t","a","i","s">>
S_produtosDigitais == <<"p","r","o","d","u","t","o","s","-","d","i","g","i","t","a","i","s">>
S_index == <<"i","n","d","e","x">>
K_known == <<"k","n","o","w","n","-","p","o","s","t">>
K_second == <<"s","e","c","o","n","d","-","p","o","s","t">>
L_absKnown == <<"h","t","t","p","s",":","/","/","w","w","w",".","f","c","g","e","s","t","a","o","e","s","t","r","a","t","e","g","i","c","a",".","c","o","m",".","b","r","/","k","n","o","w","n","-","p","o","s","t","/">>
L_absKnownHttp == <<"h","t","t","p",":","/","/","f","c","g","e","s","t","a","o","e","s","t","r","a","t","e","g","i","c","a",".","c","o","m",".","b","r","/","b","l","o","g","/","s","e","c","o","n","d","-","p","o","s","t","?","r","e","f","=","1">>
L_absUnknown == <<"h","t","t","p","s",":","/","/","w","w","w",".","f","c","g","e","s","t","a","o","e","s","t","r","a","t","e","g","i","c","a",".","c","o","m",".","b","r","/","o","t","h","e","r","-","p","o","s","t","/">>
L_absHome == <<"h","t","t","p","s",":","/","/","w","w","w",".","f","c","g","e","s","t","a","o","e","s","t","r","a","t","e","g","i","c","a",".","c","o","m",".","b","r","/">>
L_absContato == <<"h","t","t","p","s",":","/","/","w","w","w",".","f","c","g","e","s","t","a","o","e","s","t","r","a","t","e","g","i","c","a",".","c","o","m",".","b","r","/","c","o","n","t","a","t","o","/">>
L_absServicos == <<"h","t","t","p","s",":","/","/","w","w","w",".","f","c","g","e","s","t","a","o","e","s","t","r","a","t","e","g","i","c","a",".","c","o","m",".","b","r","/","s","e","r","v","i","c","o","s","/">>
L_absQuemSomos == <<"h","t","t","p",":","/","/","w","w","w",".","f","c","g","e","s","t","a","o","e","s","t","r","a","t","e","g","i","c","a",".","c","o","m",".","b","r","/","q","u","e","m","-","s","o","m","o","s">>
L_absSobre == <<"h","t","t","p","s",":","/","/","f","c","g","e","s","t","a","o","e","s","t","r","a","t","e","g","i","c","a",".","c","o","m",".","b","r","/","s","o","b","r","e","/">>
L_absCases == <<"h","t","t","p","s",":","/","/","w","w","w",".","f","c","g","e","s","t","a","o","e","s","t","r","a","t","e","g","i","c","a",".","c","o","m",".","b","r","/","c","a","s","e","s","/">>
L_absBlog == <<"h","t","t","p","s",":","/","/","w","w","w",".","f","c","g","e","s","t","a","o","e","s","t","r","a","t","e","g","i","c","a",".","c","o","m",".","b","r","/","b","l","o","g","/">>
L_rootKnown == <<"/","k","n","o","w","n","-","p","o","s","t","/">>
L_rootUnknown == <<"/","o","t","h","e","r","-","p","o","s","t","/">>
L_rootContato == <<"/","c","o","n","t","a","t","o","/">>
L_rootBlogUnknown == <<"/","b","l","o","g","/","o","t","h","e","r","-","p","o","s","t","/">>
L_external == <<"h","t","t","p","s",":","/","/","e","x","a","m","p","l","e",".","o","r","g","/","k","n","o","w","n","-","p","o","s","t","/">>
L_lookalike == <<"h","t","t","p","s",":","/","/","f","c","g","e","s","t","a","o","e","s","t","r","a","t","e","g","i","c","a",".","c","o","m",".","b","r",".","e","x","a","m","p","l","e",".","o","r","g","/","c","o","n","t","a","t","o","/">>
L_frag == <<"#","t","o","p","o">>
L_mail == <<"m","a","i","l","t","o",":","a","@","b",".","c","o">>
L_tel == <<"t","e","l",":","+","5","5","1","1">>
L_js == <<"j","a","v","a","s","c","r","i","p","t",":","v","o","i","d","(","0",")">>
L_relative == <<"a","r","t","i","g","o","-","k","n","o","w","n","-","p","o","s","t",".","h","t","m","l">>

None == <<"(None)">>

\* migrar_blog_fcge.py: slug_from_url
slug_from_url(url) ==
    IF url = <<>> THEN None
    ELSE LET path == StripChar(urlparse(url).path, "/") IN
         IF path = <<>> THEN None
         ELSE LET slug == Last(Split(path, "/")) IN
              IF slug \in {S_blog, S_contato, S_servicos, S_quemSomos, S_sobre, S_cases}
              THEN None ELSE slug

\* seo_audit_and_fix.py: slug_from_legacy_url
slug_from_legacy_url(url) ==
    LET slug == Last(Split(StripChar(urlparse(url).path, "/"), "/"))
    IN  IF slug = <<>> THEN None ELSE slug

\* f"artigo-{slug}.html"
ArticleFile(slug) == S_artigo \o slug \o S_html

\* seo_audit_and_fix.py: legacy_map
legacy_map ==
    (<<>> :> S_index \o S_html) @@ (S_contato :> S_contato \o S_html)
    @@ (S_servicos :> S_servicos \o S_html)
    @@ (S_servicosCedilha :> S_servicos \o S_html)
    @@ (S_quemSomos :> S_sobre \o S_html) @@ (S_sobre :> S_sobre \o S_html)
    @@ (S_cases :> S_cases \o S_html)
    @@ (S_produtosdigitais :> S_produtosdigitais \o S_html)
    @@ (S_produtosDigitais :> S_produtosdigitais \o S_html)
    @@ (S_blog :> S_blog \o S_html)

\* restore_article_content.py: legacy_pages
legacy_pages == [k \in (DOMAIN legacy_map) \ {S_servicosCedilha} |-> legacy_map[k]]

StartsWithAny(href, prefixes) == \E p \in prefixes : StartsWith(href, p)

\* migrar_blog_fcge.py: the body of the loop, given the slug it extracted
migrar_apply(href, slug, slug_to_local) ==
    IF slug # None /\ slug # <<>> /\ slug \in DOMAIN slug_to_local
    THEN [href |-> slug_to_local[slug], count |-> 1]
    ELSE [href |-> href, count |-> 0]

\* migrar_blog_fcge.py: rewrite_internal_links, one anchor
migrar_rewrite(href, slug_to_local) ==
    IF StartsWithAny(href, {S_hash, S_mailto, S_tel, S_javascript})
    THEN [href |-> href, count |-> 0]
    ELSE LET parsed == urlparse(href) IN
         IF parsed.scheme \in {<<"h","t","t","p">>, <<"h","t","t","p","s">>}
         THEN IF parsed.netloc # <<>> /\ ~Contains(parsed.netloc, S_domain)
              THEN [href |-> href, count |-> 0]
              ELSE migrar_apply(href, slug_from_url(href), slug_to_local)
         ELSE IF StartsWith(href, S_slash)
         THEN migrar_apply(href, slug_from_url(href), slug_to_local)
         ELSE [href |-> href, count |-> 0]

\* seo_audit_and_fix.py and restore_article_content.py: the part of the
\* loop after the prefix test, given the table of legacy pages
legacy_rewrite(href, slug, post_slugs, table) ==
    LET parsed == urlparse(href)
        key == IF slug = None THEN <<>> ELSE slug
    IN  IF /\ parsed.scheme \in {<<"h","t","t","p">>, <<"h","t","t","p","s">>}
           /\ Contains(parsed.netloc, S_domain)
           /\ slug \in post_slugs
        THEN [href |-> ArticleFile(slug), count |-> 1]
        ELSE IF /\ parsed.scheme \in {<<"h","t","t","p">>, <<"h","t","t","p","s">>}
                /\ Contains(parsed.netloc, S_domain)
                /\ key \in DOMAIN table
        THEN [href |-> table[key], count |-> 1]
        ELSE IF StartsWith(href, S_slashBlog)
        THEN [href |-> S_blog \o S_html, count |-> 1]
        ELSE [href |-> href, count |-> 0]

\* seo_audit_and_fix.py: rewrite_internal_links, one anchor
seo_rewrite(href, post_slugs) ==
    IF StartsWithAny(href, {S_hash, S_mailto, S_tel, S_javascript})
    THEN [href |-> href, count |-> 0]
    ELSE legacy_rewrite(href, slug_from_legacy_url(href), post_slugs, legacy_map)

\* restore_article_content.py: rewrite_internal_links, one anchor
restore_rewrite(href, posts_by_slug) ==
    IF StartsWithAny(href, {S_hash, S_mailto, S_tel})
    THEN [href |-> href, count |-> 0]
    ELSE legacy_rewrite(href, slug_from_legacy_url(href), posts_by_slug, legacy_pages)

-----------------------------------------------------------------------------
(* The link rewriters over generated article bodies *)

\* anchors per generated body
MaxAnchors == 2

\* slugs of the migrated posts (index_posts, data/posts.json)
PostSlugs == {K_known, K_second}

Hrefs == {L_absKnown, L_absKnownHttp, L_absUnknown, L_absHome, L_absContato,
          L_absServicos, L_absQuemSomos, L_absSobre, L_absCases, L_absBlog,
          L_rootKnown, L_rootUnknown, L_rootContato, L_rootBlogUnknown,
          L_external, L_lookalike, L_frag, L_mail, L_tel, L_js, L_relative,
          Absent}

LinkInit ==
    /\ anchors \in SeqsOf(Hrefs, MaxAnchors)
    /\ rewriter = "none"
    /\ rewritten = <<>>
    /\ rewrites = 0

RECURSIVE SumCounts(_)
SumCounts(results) ==
    IF results = <<>> THEN 0 ELSE Head(results).count + SumCounts(Tail(results))

\* find_all("a", href=True): an anchor without href is not visited
Visited(results) ==
    [i \in 1 .. Len(anchors) |->
        IF anchors[i] = Absent THEN [href |-> Absent, count |-> 0] ELSE results[i]]

Hrefs_of(results) == [i \in 1 .. Len(results) |-> results[i].href]

\* migrar_blog_fcge.py main, lines 570 and 598
RewriteMigrar ==
    /\ rewriter = "none"
    /\ rewriter' = "migrar"
    /\ \E results \in {Visited([i \in 1 .. Len(anchors) |->
                          migrar_rewrite(anchors[i],
                              [slug \in PostSlugs |-> ArticleFile(slug)])])} :
          /\ rewritten' = Hrefs_of(results)
          /\ rewrites' = SumCounts(results)
    /\ UNCHANGED anchors
    /\ UNCHANGED notLinks

\* seo_audit_and_fix.py main, line 647
RewriteSeo ==
    /\ rewriter = "none"
    /\ rewriter' = "seo"
    /\ \E results \in {Visited([i \in 1 .. Len(anchors) |->
                          seo_rewrite(anchors[i], PostSlugs)])} :
          /\ rewritten' = Hrefs_of(results)
          /\ rewrites' = SumCounts(results)
    /\ UNCHANGED anchors
    /\ UNCHANGED notLinks

\* restore_article_content.py main, line 270: no count is returned
RewriteRestore ==
    /\ rewriter = "none"
    /\ rewriter' = "restore"
    /\ rewritten' = Hrefs_of(Visited([i \in 1 .. Len(anchors) |->
                         restore_rewrite(anchors[i], PostSlugs)]))
    /\ UNCHANGED <<anchors, rewrites>>
    /\ UNCHANGED notLinks

LinkNext == RewriteMigrar \/ RewriteSeo \/ RewriteRestore

\* the state before this script runs
InitLinks == LinkInit /\ LayoutIdle /\ SrcIdle /\ NormIdle /\ DlIdle /\ MigIdle /\ ExcerptIdle /\ FetchIdle /\ RestoreIdle /\ PostsIdle /\ IndexIdle /\ SeoIdle /\ CasesIdle

SpecLinks == InitLinks /\ [][LinkNext]_vars

-----------------------------------------------------------------------------
(* Claims about the link rewriters *)

OwnHosts == {S_domain, <<"w", "w", "w", ".">> \o S_domain}

IsHttpUrl(href) ==
    urlparse(href).scheme \in {<<"h","t","t","p">>, <<"h","t","t","p","s">>}

\* an absolute URL on the source site's own domain
OnSourceSite(href) == IsHttpUrl(href) /\ urlparse(href).netloc \in OwnHosts

RootRelative(href) == StartsWith(href, S_slash) /\ ~StartsWith(href, <<"/", "/">>)

LastSegment(href) == Last(Split(StripChar(urlparse(href).path, "/"), "/"))

\* the legacy top-level pages and their local files
CanonicalPage ==
    [k \in {<<>>, S_contato, S_servicos, S_quemSomos, S_sobre, S_cases, S_blog} |->
        legacy_map[k]]

Visible == {i \in 1 .. Len(anchors) : rewriter # "none" /\ anchors[i] # Absent}

\* C7: an absolute own-domain or root-relative href whose last path segment
\* is a migrated slug becomes exactly artigo-<slug>.html, in the rewriters
\* of migrar_blog_fcge and seo_audit_and_fix
C7_KnownSlugRewritten ==
    rewriter \in {"migrar", "seo"} =>
        \A i \in Visible :
            /\ OnSourceSite(anchors[i]) \/ RootRelative(anchors[i])
            /\ LastSegment(anchors[i]) \in PostSlugs
            => rewritten[i] = ArticleFile(LastSegment(anchors[i]))

\* C8: an href on the source site whose slug is no migrated article but a
\* legacy top-level page becomes that page's local file, in every rewriter
C8_LegacyPageRewritten ==
    \A i \in Visible :
        /\ OnSourceSite(anchors[i])
        /\ LastSegment(anchors[i]) \notin PostSlugs
        /\ LastSegment(anchors[i]) \in DOMAIN CanonicalPage
        => rewritten[i] = CanonicalPage[LastSegment(anchors[i])]

\* hrefs the rewriter has no mapping for
Unmapped(href) ==
    \/ StartsWithAny(href, {S_hash, S_mailto, S_tel, S_javascript})
    \/ IsHttpUrl(href) /\ urlparse(href).netloc \notin OwnHosts
    \/ /\ OnSourceSite(href) \/ RootRelative(href)
       /\ LastSegment(href) \notin PostSlugs \cup DOMAIN legacy_map

\* C9: hrefs without a mapping ("#", mailto:, tel:, javascript:, foreign
\* hosts, internal hrefs with an unknown slug) stay byte-identical in the
\* rewriters of seo_audit_and_fix and restore_article_content
C9_UnmappedUntouched ==
    rewriter \in {"seo", "restore"} =>
        \A i \in Visible : Unmapped(anchors[i]) => rewritten[i] = anchors[i]

-----------------------------------------------------------------------------
(* migrar_blog_fcge.py: download_image *)

D_imagens == <<"i","m","a","g","e","n","s","/","b","l","o","g","/">>
S_imagem == <<"i","m","a","g","e","m">>
S_jpgExt == <<".","j","p","g">>
U_photoA == <<"h","t","t","p","s",":","/","/","c","d","n",".","i","o","/","a","/","p","h","o","t","o",".","j","p","g">>
U_photoB == <<"h","t","t","p","s",":","/","/","c","d","n",".","i","o","/","b","/","p","h","o","t","o",".","j","p","g","?","w","=","3","0","0">>
U_photoQ == <<"h","t","t","p","s",":","/","/","c","d","n",".","i","o","/","a","/","p","h","o","t","o",".","j","p","g","?","w","=","3","0","0">>
U_noExt == <<"h","t","t","p","s",":","/","/","c","d","n",".","i","o","/","a","/","i","m","a","g","e">>
U_odd == <<"h","t","t","p","s",":","/","/","c","d","n",".","i","o","/","a","/","m","y"," "," ","p","i","c","*",".","p","n","g">>
T_now == <<"1","7","0","0","0","0","0","0","0","0">>
T_later == <<"1","7","0","0","0","0","0","0","0","1">>
D_photo == <<"p","h","o","t","o",".","j","p","g">>

\* re.sub(r"-+", "-", name)
RECURSIVE CollapseDashes(_)
CollapseDashes(name) ==
    IF Len(name) < 2 THEN name
    ELSE IF name[1] = "-" /\ name[2] = "-" THEN CollapseDashes(Tail(name))
    ELSE <<name[1]>> \o CollapseDashes(Tail(name))

safe_filename(name) ==
    LET stripped == Strip(name)
        dashed == [i \in 1 .. Len(stripped) |->
                      IF stripped[i] \in {"<", ">", ":", "\"", "/", "\\", "|", "?", "*", " "}
                      THEN "-" ELSE stripped[i]]
        collapsed == CollapseDashes(dashed)
    IN  IF collapsed = <<>> THEN S_imagem ELSE collapsed

NotDotOrEmpty(comp) == comp # <<>> /\ comp # <<".">>

\* Path(path).name
PathName(path) ==
    LET comps == SelectSeq(Split(path, "/"), NotDotOrEmpty)
    IN  IF comps = <<>> THEN <<>> ELSE Last(comps)

\* the position of the "." that starts Path.suffix, or 0
SuffixDot(name) ==
    LET d == LastIndexOf(name, ".")
    IN  IF d > 1 /\ d < Len(name) THEN d ELSE 0

\* Path.stem, Path.suffix
PathStem(name) == IF SuffixDot(name) = 0 THEN name ELSE SubSeq(name, 1, SuffixDot(name) - 1)
PathSuffix(name) == IF SuffixDot(name) = 0 THEN <<>> ELSE Drop(name, SuffixDot(name) - 1)

DigitChars == <<"0","1","2","3","4","5","6","7","8","9">>

\* str(n) for n >= 0
RECURSIVE IntToStr(_)
IntToStr(n) ==
    IF n < 10 THEN <<DigitChars[n + 1]>>
    ELSE IntToStr(n \div 10) \o <<DigitChars[(n % 10) + 1]>>

\* dest_path.relative_to(ROOT_DIR).as_posix()
RelPath(slug, name) == D_imagens \o slug \o <<"/">> \o name

\* lines 162-167: the first name that no non-empty file carries
RECURSIVE free_dest(_, _, _, _)
free_dest(slug, name, counter, existing) ==
    IF RelPath(slug, name) \in existing
    THEN free_dest(slug, PathStem(name) \o <<"-">> \o IntToStr(counter) \o PathSuffix(name),
                   counter + 1, existing)
    ELSE name

\* lines 151-159: the file name for a source URL, at clock reading now
dest_filename(url, now) ==
    LET filename == safe_filename(PathName(urlparse(url).path))
    IN  IF filename = <<>> \/ IndexOf(filename, ".") = 0
        THEN S_imagem \o <<"-">> \o now \o S_jpgExt
        ELSE filename

\* cache[slug] = {} when the slug is new
with_slug(cache, slug) ==
    IF slug \in DOMAIN cache THEN cache ELSE (slug :> <<>>) @@ cache

\* mutant: a finished download is not entered in the cache
cache_store_nothing(cache, slug, url, rel_path) == cache

\* cache[slug][url] = rel_path
cache_store(cache, slug, url, rel_path) ==
    [cache EXCEPT ![slug] = (url :> rel_path) @@ @]

\* download_image: the result and the state it leaves; outcome is what the
\* network did: "ok", "empty" (a response without content) or "error"
\* (fetch raised after its retries)
download_image(url, slug, outcome, now, cache, existing, count) ==
    IF url = <<>>
    THEN [result |-> None, cache |-> cache, existing |-> existing, count |-> count,
          fetched |-> FALSE, wrote |-> FALSE]
    ELSE IF url \in DOMAIN with_slug(cache, slug)[slug]
    THEN [result |-> with_slug(cache, slug)[slug][url],
          cache |-> with_slug(cache, slug), existing |-> existing, count |-> count,
          fetched |-> FALSE, wrote |-> FALSE]
    ELSE IF outcome # "ok"
    THEN [result |-> None, cache |-> with_slug(cache, slug), existing |-> existing,
          count |-> count, fetched |-> TRUE, wrote |-> FALSE]
    ELSE LET rel_path == RelPath(slug, free_dest(slug, dest_filename(url, now), 1, existing))
         IN  [result |-> rel_path,
              cache |-> cache_store(with_slug(cache, slug), slug, url, rel_path),
              existing |-> existing \cup {rel_path}, count |-> count + 1,
              fetched |-> TRUE, wrote |-> TRUE]

-----------------------------------------------------------------------------
(* migrar_blog_fcge.py: the download_image calls of main *)

\* download_image calls per exploration
MaxCalls == 3

DlSlugs == {K_known, K_second}
DlUrls == {U_photoA, U_photoQ, U_photoB, U_noExt, U_odd, <<>>}
Pairs == DlSlugs \X DlUrls

\* time.time() is read (line 158) only when the name has no extension
ClockReadings == [url \in DlUrls |->
                     IF url # <<>> /\ dest_filename(url, T_now) # dest_filename(url, T_later)
                     THEN {T_now, T_later} ELSE {T_now}]

NoHist == [pair \in Pairs |->
              [calls |-> 0, fetches |-> 0, downloads |-> 0, overwrites |-> 0,
               returned |-> {}]]

DlInit ==
    /\ image_cache = <<>>
    /\ disk \in {{}, {RelPath(K_known, D_photo)}}
    /\ baixadas = 0
    /\ dpc = "idle"
    /\ druns = 0
    /\ dcalls = 0
    /\ dhist = NoHist

\* main(), lines 555-584: a new report and an empty image_cache
DlStartRun ==
    /\ dpc = "idle"
    /\ druns < MaxRuns
    /\ druns' = druns + 1
    /\ dpc' = "running"
    /\ image_cache' = <<>>
    /\ baixadas' = 0
    /\ dhist' = NoHist
    /\ UNCHANGED <<disk, dcalls>>
    /\ UNCHANGED notDl

\* main(), lines 602-620: one call for an image of the body or for the cover
DownloadImage ==
    /\ dpc = "running"
    /\ dcalls < MaxCalls
    /\ \E slug \in DlSlugs, url \in DlUrls, outcome \in {"ok", "empty", "error"} :
        \E now \in ClockReadings[url] :
          \E r \in {download_image(url, slug, outcome, now, image_cache, disk, baixadas)} :
             /\ image_cache' = r.cache
             /\ disk' = r.existing
             /\ baixadas' = r.count
             /\ dhist' = [dhist EXCEPT ![<<slug, url>>] =
                             [calls |-> @.calls + 1,
                              fetches |-> @.fetches + (IF r.fetched THEN 1 ELSE 0),
                              downloads |-> @.downloads + (IF r.wrote THEN 1 ELSE 0),
                              overwrites |-> @.overwrites +
                                  (IF r.wrote /\ r.result \in disk THEN 1 ELSE 0),
                              returned |-> @.returned \cup {r.result}]]
    /\ dcalls' = dcalls + 1
    /\ UNCHANGED <<dpc, druns>>
    /\ UNCHANGED notDl

\* main(), lines 688-700: the run ends
DlFinishRun ==
    /\ dpc = "running"
    /\ dpc' = "idle"
    /\ UNCHANGED <<image_cache, disk, baixadas, druns, dcalls, dhist>>
    /\ UNCHANGED notDl

DlNext == DlStartRun \/ DownloadImage \/ DlFinishRun

\* the state before this script runs
InitDownload == DlInit /\ LayoutIdle /\ SrcIdle /\ NormIdle /\ LinkIdle /\ MigIdle /\ ExcerptIdle /\ FetchIdle /\ RestoreIdle /\ PostsIdle /\ IndexIdle /\ SeoIdle /\ CasesIdle

SpecDownload == InitDownload /\ [][DlNext]_vars

-----------------------------------------------------------------------------
(* Claims about download_image *)

Cached(pair) ==
    pair[1] \in DOMAIN image_cache /\ pair[2] \in DOMAIN image_cache[pair[1]]

\* C10 as stated: in one run every (slug, URL) pair is fetched at most once
\* and all its calls return the same value
C10_OneFetchSameResult ==
    \A pair \in DOMAIN dhist :
        /\ dhist[pair].fetches <= 1
        /\ Cardinality(dhist[pair].returned) <= 1

\* C10 amended: in one run every (slug, URL) pair has at most one completed
\* download, every call that returns a path returns the cached one, and a
\* call whose download failed returned None and cached nothing
C10_OneCompletedDownload ==
    \A pair \in DOMAIN dhist :
        /\ dhist[pair].downloads <= 1
        /\ dhist[pair].downloads = 1 <=> Cached(pair)
        /\ dhist[pair].returned \ {None} =
              IF Cached(pair) THEN {image_cache[pair[1]][pair[2]]} ELSE {}
        /\ dhist[pair].fetches > dhist[pair].downloads => None \in dhist[pair].returned

\* one image referenced three times (twice in the body, once as the cover):
\* one download, one path
C10_Witness ==
    \E pair \in DOMAIN dhist :
        /\ dhist[pair].calls = 3
        /\ dhist[pair].fetches = 1
        /\ dhist[pair].downloads = 1
        /\ dhist[pair].returned = {image_cache[pair[1]][pair[2]]}

\* the normalized asset path of every image URL (normalize_src)
AssetKey == [url \in DlUrls \ {<<>>} |-> normalize_src(url)]

\* the image references of one page with one normalized asset path
SameAsset(pair) ==
    {other \in DOMAIN dhist :
        /\ other[1] = pair[1]
        /\ other[2] # <<>>
        /\ AssetKey[other[2]] = AssetKey[pair[2]]}

RECURSIVE SumDownloads(_)
SumDownloads(pairs) ==
    IF pairs = {} THEN 0
    ELSE LET pair == CHOOSE p \in pairs : TRUE
         IN  dhist[pair].downloads + SumDownloads(pairs \ {pair})

PathsReturned(pairs) == UNION {dhist[pair].returned \ {None} : pair \in pairs}

\* C11: in one run the image references of one page that share a normalized
\* asset path are downloaded at most once between them and every one of
\* them that is resolved gets the same local path
C11_OneDownloadPerAssetPath ==
    \A pair \in DOMAIN dhist :
        pair[2] # <<>> =>
            /\ SumDownloads(SameAsset(pair)) <= 1
            /\ Cardinality(PathsReturned(SameAsset(pair))) <= 1

\* the destination file computed for a reference whose file name does not
\* depend on the clock
DestPath == [pair \in {q \in Pairs : q[2] # <<>> /\ ClockReadings[q[2]] = {T_now}} |->
                RelPath(pair[1], dest_filename(pair[2], T_now))]

\* a download_image call for this reference happens in the step
Called(pair) == dhist'[pair].calls = dhist[pair].calls + 1

\* C12: a call whose computed destination file exists with non-zero size
\* returns that path, makes no network request and writes no file
C12_ExistingFileReused ==
    [][\A pair \in DOMAIN DestPath :
          Called(pair) /\ DestPath[pair] \in disk =>
              /\ DestPath[pair] \in dhist'[pair].returned
              /\ dhist'[pair].fetches = dhist[pair].fetches
              /\ disk' = disk]_vars

-----------------------------------------------------------------------------
(* restore_article_content.py: download_image and its calls in main *)

S_imagensDir == <<"i","m","a","g","e","n","s","/">>

\* download_image (lines 75-99): the result and the state it leaves; a
\* response without content leaves a file of size zero
restore_download_image(url, slug, outcome, now, existing) ==
    IF url = <<>>
    THEN [result |-> None, existing |-> existing, fetched |-> FALSE, wrote |-> FALSE]
    ELSE IF StartsWith(url, S_imagensDir)
    THEN [result |-> url, existing |-> existing, fetched |-> FALSE, wrote |-> FALSE]
    ELSE LET rel_path == RelPath(slug, dest_filename(url, now))
         IN  IF rel_path \in existing
             THEN [result |-> rel_path, existing |-> existing,
                   fetched |-> FALSE, wrote |-> FALSE]
             ELSE IF outcome = "error"
             THEN [result |-> url, existing |-> existing,
                   fetched |-> TRUE, wrote |-> FALSE]
             ELSE [result |-> rel_path,
                   existing |-> IF outcome = "ok" THEN existing \cup {rel_path}
                                ELSE existing,
                   fetched |-> TRUE, wrote |-> TRUE]

\* pick_image_url results and og:image contents of the source pages
RestoreUrls == {U_photoA, U_photoQ, U_photoB, U_noExt, RelPath(K_known, D_photo)}
RestorePairs == DlSlugs \X RestoreUrls

RestoreClock == [url \in RestoreUrls |->
                    IF dest_filename(url, T_now) # dest_filename(url, T_later)
                    THEN {T_now, T_later} ELSE {T_now}]

RestoreNoHist == [pair \in RestorePairs |->
                     [calls |-> 0, fetches |-> 0, downloads |-> 0, overwrites |-> 0,
                      returned |-> {}]]

RestoreDlInit ==
    /\ image_cache = <<>>
    /\ disk \in {{}, {RelPath(K_known, D_photo)}}
    /\ baixadas = 0
    /\ dpc = "idle"
    /\ druns = 0
    /\ dcalls = 0
    /\ dhist = RestoreNoHist

\* main(), lines 228-245
RestoreStartRun ==
    /\ dpc = "idle"
    /\ druns < MaxRuns
    /\ druns' = druns + 1
    /\ dpc' = "running"
    /\ dhist' = RestoreNoHist
    /\ UNCHANGED <<image_cache, disk, baixadas, dcalls>>
    /\ UNCHANGED notDl

\* main(), lines 272-296: one call for an image of the body or for the cover
RestoreDownloadImage ==
    /\ dpc = "running"
    /\ dcalls < MaxCalls
    /\ \E slug \in DlSlugs, url \in RestoreUrls, outcome \in {"ok", "empty", "error"} :
        \E now \in RestoreClock[url] :
          \E r \in {restore_download_image(url, slug, outcome, now, disk)} :
             /\ disk' = r.existing
             /\ dhist' = [dhist EXCEPT ![<<slug, url>>] =
                             [calls |-> @.calls + 1,
                              fetches |-> @.fetches + (IF r.fetched THEN 1 ELSE 0),
                              downloads |-> @.downloads + (IF r.wrote THEN 1 ELSE 0),
                              overwrites |-> @.overwrites +
                                  (IF r.wrote /\ r.result \in disk THEN 1 ELSE 0),
                              returned |-> @.returned \cup {r.result}]]
    /\ dcalls' = dcalls + 1
    /\ UNCHANGED <<image_cache, baixadas, dpc, druns>>
    /\ UNCHANGED notDl

\* main(), line 320: the run ends
RestoreFinishRun ==
    /\ dpc = "running"
    /\ dpc' = "idle"
    /\ UNCHANGED <<image_cache, disk, baixadas, druns, dcalls, dhist>>
    /\ UNCHANGED notDl

RestoreDlNext == RestoreStartRun \/ RestoreDownloadImage \/ RestoreFinishRun

InitRestoreDownload == RestoreDlInit /\ LayoutIdle /\ SrcIdle /\ NormIdle /\ LinkIdle /\ MigIdle /\ ExcerptIdle /\ FetchIdle /\ RestoreIdle /\ PostsIdle /\ IndexIdle /\ SeoIdle /\ CasesIdle

SpecRestoreDownload == InitRestoreDownload /\ [][RestoreDlNext]_vars

\* files under the images directory
IsLocalPath(path) == path # None /\ StartsWith(path, D_imagens)

\* two different source URLs of one article with one sanitized file name
SameFilename(p, q) ==
    /\ p[1] = q[1]
    /\ p[2] # q[2]
    /\ ~StartsWith(p[2], S_imagensDir) /\ ~StartsWith(q[2], S_imagensDir)
    /\ \E now \in {T_now, T_later} : dest_filename(p[2], now) = dest_filename(q[2], now)

Collisions == {pq \in RestorePairs \X RestorePairs : SameFilename(pq[1], pq[2])}

\* C13: two different source URLs of one slug with the same sanitized file
\* name never get the same local path, and no download overwrites an
\* existing non-empty file
C13_CollisionsGetDistinctPaths ==
    /\ \A pq \in Collisions :
          {path \in dhist[pq[1]].returned \cap dhist[pq[2]].returned :
              IsLocalPath(path)} = {}
    /\ \A pair \in DOMAIN dhist : dhist[pair].overwrites = 0

-----------------------------------------------------------------------------
(* migrar_blog_fcge.py: main, one article after the other *)

BASE_URL == <<"h","t","t","p","s",":","/","/","w","w","w",".","f","c","g","e","s","t","a","o","e","s","t","r","a","t","e","g","i","c","a",".","c","o","m",".","b","r">>
SS_lazy == <<"h","t","t","p","s",":","/","/","c","d","n",".","i","o","/","a","/","p","h","o","t","o",".","j","p","g"," ","3","0","0","w",","," ","h","t","t","p","s",":","/","/","c","d","n",".","i","o","/","b","/","p","h","o","t","o",".","j","p","g","?","w","=","3","0","0"," ","6","0","0","w">>
SS_only == <<"h","t","t","p","s",":","/","/","c","d","n",".","i","o","/","a","/","p","h","o","t","o",".","j","p","g","?","w","=","3","0","0"," ","3","0","0","w",","," ","h","t","t","p","s",":","/","/","c","d","n",".","i","o","/","b","/","p","h","o","t","o",".","j","p","g","?","w","=","3","0","0"," ","6","0","0","w">>

\* urljoin(base, val) for a base without a path and a reference without
\* dot segments
urljoin(base, val) ==
    IF urlparse(val).scheme # <<>> THEN val
    ELSE IF StartsWith(val, <<"/", "/">>) THEN urlparse(base).scheme \o <<":">> \o val
    ELSE IF StartsWith(val, <<"/">>) THEN base \o val
    ELSE base \o <<"/">> \o val

\* an img tag: the attributes that pick_image_url reads
ImgTag(data_src, src, srcset) == [data_src |-> data_src, src |-> src, srcset |-> srcset]

Usable(val) == val # Absent /\ val # <<>> /\ ~StartsWith(val, S_data)

\* srcset.split(",")[0].strip().split(" ")[0]
FirstOfSrcset(srcset) == Split(Strip(Split(srcset, ",")[1]), " ")[1]

\* pick_image_url (lines 121-140)
pick_image_url(img) ==
    IF Usable(img.data_src) THEN urljoin(BASE_URL, img.data_src)
    ELSE IF Usable(img.src) THEN urljoin(BASE_URL, img.src)
    ELSE IF img.srcset # Absent /\ img.srcset # <<>> /\ Usable(FirstOfSrcset(img.srcset))
    THEN urljoin(BASE_URL, FirstOfSrcset(img.srcset))
    ELSE None

\* clean_image_attrs (lines 315-328)
clean_image_attrs(img) == [img EXCEPT !.data_src = Absent, !.srcset = Absent]

\* mutant: the src is assigned whatever download_image returned
set_src_always(img, local_path) == clean_image_attrs([img EXCEPT !.src = local_path])

\* main(), lines 606-609: if local_path: img["src"] = local_path; clean
set_src(img, local_path) ==
    IF local_path # None THEN clean_image_attrs([img EXCEPT !.src = local_path])
    ELSE img

\* articles have at most MaxBodyImgs images in their body
MaxBodyImgs == 2

G_lazy == ImgTag(U_photoA, I_inline, SS_lazy)
G_srcset == ImgTag(Absent, I_inline, SS_only)
G_none == ImgTag(Absent, I_inline, Absent)

BodyImgs == {G_lazy, G_srcset}
BodyImgSeqs == UNION {[1 .. n -> BodyImgs] : n \in 0 .. MaxBodyImgs} \cup {<<G_none>>}
OgImages == {Absent, U_photoA}

\* collect_index_posts: the posts of the index, in its order
IndexPosts == <<K_known, K_second>>
PostUrl(slug) == BASE_URL \o <<"/">> \o slug \o <<"/">>

\* time.time() matters only for a name without extension (line 158)
Clock(url) == IF dest_filename(url, T_now) # dest_filename(url, T_later)
              THEN {T_now, T_later} ELSE {T_now}

Failed(r) == r.fetched /\ ~r.wrote

MigInit ==
    /\ mpc = "idle"
    /\ mqueue = <<>>
    /\ mslug = <<>>
    /\ msource = <<>>
    /\ mimgs = <<>>
    /\ mresults = <<>>
    /\ mog = <<>>
    /\ mreport = <<>>
    /\ mreportFile = <<>>
    /\ marticles = <<>>
    /\ mfailed = 0
    /\ image_cache = <<>>
    /\ disk \in {{}, {RelPath(K_known, D_photo)}}
    /\ baixadas = 0
    /\ dpc = "idle"
    /\ druns = 0
    /\ dcalls = 0
    /\ dhist = <<>>

\* main(), lines 555-584
MigStart ==
    /\ mpc = "idle"
    /\ mreportFile = <<>>
    /\ mpc' = "next"
    /\ mqueue' = IndexPosts
    /\ mreport' = [totalPostsEncontrados |-> Len(IndexPosts),
                   totalMigradosComSucesso |-> 0,
                   listaDeFalhas |-> <<>>]
    /\ image_cache' = <<>>
    /\ baixadas' = 0
    /\ UNCHANGED <<mslug, msource, mimgs, mresults, mog, mreportFile, marticles, mfailed>>
    /\ UNCHANGED <<disk, dpc, druns, dcalls, dhist>>
    /\ UNCHANGED notMig

\* main(), lines 585-599 and 685-686: the page is fetched and its body
\* extracted, or fetch raises and the page goes to listaDeFalhas
MigOpenPage ==
    /\ mpc = "next"
    /\ mqueue # <<>>
    /\ \E outcome \in {"ok", "error"} :
          IF outcome = "error"
          THEN /\ mreport' = [mreport EXCEPT !.listaDeFalhas =
                                  Append(@, [url |-> PostUrl(Head(mqueue)),
                                             motivo |-> "fetch"])]
               /\ mqueue' = Tail(mqueue)
               /\ UNCHANGED <<mpc, mslug, msource, mimgs, mresults, mog>>
          ELSE /\ \E imgs \in BodyImgSeqs, og \in OgImages :
                     /\ msource' = imgs
                     /\ mimgs' = imgs
                     /\ mog' = og
               /\ mslug' = Head(mqueue)
               /\ mqueue' = Tail(mqueue)
               /\ mresults' = <<>>
               /\ mpc' = "images"
               /\ UNCHANGED mreport
    /\ UNCHANGED <<mreportFile, marticles, mfailed>>
    /\ UNCHANGED dlVars
    /\ UNCHANGED notMig

\* main(), lines 602-609: the next img of the body
MigImage ==
    /\ mpc = "images"
    /\ Len(mresults) < Len(mimgs)
    /\ LET i == Len(mresults) + 1
           img_url == pick_image_url(mimgs[i])
       IN  IF img_url = None
           THEN /\ mresults' = Append(mresults, None)
                /\ UNCHANGED <<mimgs, mfailed, image_cache, disk, baixadas>>
           ELSE \E outcome \in {"ok", "empty", "error"}, now \in Clock(img_url) :
                  \E r \in {download_image(img_url, mslug, outcome, now,
                                           image_cache, disk, baixadas)} :
                     /\ mimgs' = [mimgs EXCEPT ![i] = set_src(@, r.result)]
                     /\ mresults' = Append(mresults, r.result)
                     /\ mfailed' = mfailed + (IF Failed(r) THEN 1 ELSE 0)
                     /\ image_cache' = r.cache
                     /\ disk' = r.existing
                     /\ baixadas' = r.count
    /\ UNCHANGED <<mpc, mqueue, mslug, msource, mog, mreport, mreportFile, marticles>>
    /\ UNCHANGED <<dpc, druns, dcalls, dhist>>
    /\ UNCHANGED notMig

\* main(), lines 611-615
cover_url_of(og, imgs) ==
    IF og # Absent /\ og # <<>> THEN og
    ELSE IF imgs # <<>> /\ pick_image_url(imgs[1]) # None THEN pick_image_url(imgs[1])
    ELSE <<>>

\* main(), lines 611-684: the cover, the article file and the counter
MigWritePage ==
    /\ mpc = "images"
    /\ Len(mresults) = Len(mimgs)
    /\ \E cover_url \in {cover_url_of(mog, mimgs)} :
        \E outcome \in {"ok", "empty", "error"}, now \in Clock(cover_url) :
          \E r \in {download_image(cover_url, mslug, outcome, now,
                                   image_cache, disk, baixadas)} :
             /\ marticles' = (mslug :> [source |-> msource, imgs |-> mimgs,
                                        results |-> mresults,
                                        coverImagePath |-> r.result]) @@ marticles
             /\ mfailed' = mfailed + (IF Failed(r) THEN 1 ELSE 0)
             /\ image_cache' = r.cache
             /\ disk' = r.existing
             /\ baixadas' = r.count
    /\ mreport' = [mreport EXCEPT !.totalMigradosComSucesso = @ + 1]
    /\ mpc' = "next"
    /\ UNCHANGED <<mqueue, mslug, msource, mimgs, mresults, mog, mreportFile>>
    /\ UNCHANGED <<dpc, druns, dcalls, dhist>>
    /\ UNCHANGED notMig

\* main(), lines 688-698: the report is written with the final counters
MigFinish ==
    /\ mpc = "next"
    /\ mqueue = <<>>
    /\ mpc' = "idle"
    /\ mreportFile' = [totalPostsEncontrados |-> mreport.totalPostsEncontrados,
                       totalMigradosComSucesso |-> mreport.totalMigradosComSucesso,
                       listaDeFalhas |-> mreport.listaDeFalhas,
                       imagensBaixadas |-> baixadas]
    /\ UNCHANGED <<mqueue, mslug, msource, mimgs, mresults, mog, mreport, marticles, mfailed>>
    /\ UNCHANGED dlVars
    /\ UNCHANGED notMig

MigNext == MigStart \/ MigOpenPage \/ MigImage \/ MigWritePage \/ MigFinish

InitMigrate == MigInit /\ LayoutIdle /\ SrcIdle /\ NormIdle /\ LinkIdle /\ ExcerptIdle /\ FetchIdle /\ RestoreIdle /\ PostsIdle /\ IndexIdle /\ SeoIdle /\ CasesIdle

SpecMigrate == InitMigrate /\ [][MigNext]_vars

-----------------------------------------------------------------------------
(* Claims about the images of an article in migrar_blog_fcge.py *)

\* image i was left unresolved with its attributes as in the source, or
\* was resolved to the path download_image returned
ImageSettled(source, imgs, results, i) ==
    IF results[i] = None THEN imgs[i] = source[i]
    ELSE imgs[i] = clean_image_attrs([source[i] EXCEPT !.src = results[i]])

FailedPages == {mreport.listaDeFalhas[k].url : k \in 1 .. Len(mreport.listaDeFalhas)}

\* the posts of the index that main has finished with
Handled == {IndexPosts[k] : k \in 1 .. (Len(IndexPosts) - Len(mqueue))}
              \ (IF mpc = "images" THEN {mslug} ELSE {})

\* C14: an image whose download failed keeps its original attributes, the
\* images after it are processed all the same, and the article is written
\* and counted as migrated: only a page whose own fetch failed is listed as
\* a failure
C14_AssetFailureKeepsPage ==
    mreport # <<>> =>
        /\ \A i \in 1 .. Len(mresults) : ImageSettled(msource, mimgs, mresults, i)
        /\ \A slug \in DOMAIN marticles :
              /\ Len(marticles[slug].results) = Len(marticles[slug].source)
              /\ \A i \in 1 .. Len(marticles[slug].source) :
                    ImageSettled(marticles[slug].source, marticles[slug].imgs,
                                 marticles[slug].results, i)
        /\ mreport.totalMigradosComSucesso = Cardinality(DOMAIN marticles)
        /\ \A slug \in Handled : slug \in DOMAIN marticles <=> PostUrl(slug) \notin FailedPages

\* an article of two images was written and counted although the download
\* of its first image failed; the second image was resolved
C14_Witness ==
    /\ mfailed > 0
    /\ \E slug \in DOMAIN marticles :
          /\ Len(marticles[slug].source) = 2
          /\ pick_image_url(marticles[slug].source[1]) # None
          /\ marticles[slug].results[1] = None
          /\ marticles[slug].imgs[1] = marticles[slug].source[1]
          /\ marticles[slug].results[2] # None
          /\ marticles[slug].imgs[2].src = marticles[slug].results[2]
    /\ mreport.totalMigradosComSucesso = Cardinality(DOMAIN marticles)

\* the asset warnings of a written report: its entries about an image
AssetWarnings(written) ==
    Cardinality({k \in 1 .. Len(written.listaDeFalhas) :
                    written.listaDeFalhas[k].url \notin {PostUrl(slug) : slug \in Range(IndexPosts)}})

\* C15: the report written at the end of a run has as many asset warnings
\* as image downloads failed in the run
C15_WarningPerFailedDownload ==
    mreportFile # <<>> => AssetWarnings(mreportFile) = mfailed

-----------------------------------------------------------------------------
(* Excerpt truncation: seo_audit_and_fix.py strip_and_truncate,
   sync_blog_single_page.py make_excerpt, migrar_blog_fcge.py main *)

\* the default limits of the three truncations
SeoLimit == 170
MigrarLimit == 180
SyncMaxLen == 220

S_ellipsis == <<".", ".", ".">>

Take(s, n) == SubSeq(s, 1, IF n < Len(s) THEN n ELSE Len(s))

Dropped == "(dropped)"
NotDropped(c) == c # Dropped

\* re.sub(r"\s+", " ", text): the first character of a run of whitespace
\* becomes a space, the rest of the run goes
CollapseSpaces(text) ==
    SelectSeq([i \in 1 .. Len(text) |->
                  IF text[i] \notin Whitespace THEN text[i]
                  ELSE IF i > 1 /\ text[i - 1] \in Whitespace THEN Dropped
                  ELSE " "],
              NotDropped)

Max(S) == CHOOSE k \in S : \A j \in S : j <= k

\* s.rsplit(" ", 1)[0]
RSplitFirst(s) ==
    LET spaces == {i \in 1 .. Len(s) : s[i] = " "}
    IN  IF spaces = {} THEN s ELSE SubSeq(s, 1, Max(spaces) - 1)

\* strip_and_truncate (seo_audit_and_fix.py, lines 101-106)
strip_and_truncate(text, limit) ==
    LET compact == Strip(CollapseSpaces(text))
    IN  IF Len(compact) <= limit THEN compact
        ELSE Strip(RSplitFirst(Take(compact, limit))) \o S_ellipsis

\* make_excerpt (sync_blog_single_page.py, lines 399-403)
make_excerpt(text, max_len) ==
    LET compact == Strip(CollapseSpaces(text))
    IN  IF Len(compact) <= max_len THEN compact
        ELSE RStrip(Take(compact, max_len - 3)) \o S_ellipsis

\* main (migrar_blog_fcge.py, line 630), written for any limit
migrar_excerpt(text, limit) ==
    RSplitFirst(Take(text, limit)) \o (IF Len(text) > limit THEN S_ellipsis ELSE <<>>)

Truncations == {"seo", "migrar", "sync"}

Limit == [fn \in Truncations |->
             CASE fn = "seo" -> SeoLimit
               [] fn = "migrar" -> MigrarLimit
               [] fn = "sync" -> SyncMaxLen]

truncate(fn, text) ==
    CASE fn = "seo" -> strip_and_truncate(text, SeoLimit)
      [] fn = "migrar" -> migrar_excerpt(text, MigrarLimit)
      [] fn = "sync" -> make_excerpt(text, SyncMaxLen)

\* short texts have at most MaxShort characters
MaxShort == 4

\* long texts end up to MaxOver characters after a limit
MaxOver == 2

ShortTexts == UNION {[1 .. n -> {"a", " "}] : n \in 0 .. MaxShort}

\* words of w letters separated by single spaces, n characters in all
Words(w, n) == [i \in 1 .. n |-> IF i % (w + 1) = 0 THEN " " ELSE "a"]

LongTexts ==
    {Words(w, n) : w \in {1, 2, 4, 12, 300},
                   n \in UNION {(Limit[fn] - 1) .. (Limit[fn] + MaxOver) : fn \in Truncations}}

Texts == ShortTexts \cup LongTexts

ExcerptInit ==
    /\ exFn \in Truncations
    /\ exIn \in Texts
    /\ exOut = Unset

\* the excerpt is computed
Truncate ==
    /\ exOut = Unset
    /\ exOut' = truncate(exFn, exIn)
    /\ UNCHANGED <<exFn, exIn>>
    /\ UNCHANGED notExcerpt

ExcerptNext == Truncate

InitExcerpt == ExcerptInit /\ LayoutIdle /\ SrcIdle /\ NormIdle /\ LinkIdle /\ DlIdle /\ MigIdle /\ FetchIdle /\ RestoreIdle /\ PostsIdle /\ IndexIdle /\ SeoIdle /\ CasesIdle

SpecExcerpt == InitExcerpt /\ [][ExcerptNext]_vars

\* text without leading, trailing or repeated whitespace
IsCompact(text) == text = Strip(CollapseSpaces(text))

\* the ends of words within the first limit characters of a text
Boundaries(text, limit) ==
    {k \in 1 .. limit : k < Len(text) /\ text[k] # " " /\ text[k + 1] = " "}

\* C16: a text of at most L characters comes back unchanged; a longer one
\* is cut at the last word end within its first L characters and gets an
\* ellipsis
C16_TruncatesAtWordBoundary ==
    exOut # Unset /\ IsCompact(exIn) =>
        IF Len(exIn) <= Limit[exFn] THEN exOut = exIn
        ELSE Boundaries(exIn, Limit[exFn]) # {} =>
                 exOut = Take(exIn, Max(Boundaries(exIn, Limit[exFn]))) \o S_ellipsis

-----------------------------------------------------------------------------
(* fetch: migrar_blog_fcge.py (lines 95-110), restore_article_content.py
   (lines 26-38), sync_blog_single_page.py (lines 81-92) *)

\* retries = 3, backoff = 1
Retries == 3
FirstBackoff == 1

Fetchers == {"migrar", "restore", "sync"}

\* range(1, retries + 1) in migrar_blog_fcge.py, range(retries) in the others
first_attempt(fn) == IF fn = "migrar" THEN 1 ELSE 0
in_range(fn, attempt) == IF fn = "migrar" THEN attempt <= Retries ELSE attempt < Retries

\* mutant: no attempt is taken for the last one
is_last_never(fn, attempt) == FALSE

\* attempt == retries in migrar_blog_fcge.py, attempt == retries - 1 in the others
is_last(fn, attempt) ==
    IF fn = "migrar" THEN attempt = Retries ELSE attempt = Retries - 1

\* fetch calls per exploration
MaxFetchCalls == 2

\* what one request does: a response, a response with status >= 400, or an
\* exception of the HTTP library
Responses == {"ok", "status", "error"}

FetchInit ==
    /\ fFn \in Fetchers
    /\ fpc = "idle"
    /\ fAttempt = 0
    /\ fBackoff = 0
    /\ fSleeps = <<>>
    /\ fOutcomes = <<>>
    /\ fResults = <<>>

\* fetch is called: backoff = 1 and the loop starts
FetchCall ==
    /\ fpc = "idle"
    /\ Len(fResults) < MaxFetchCalls
    /\ fpc' = "loop"
    /\ fAttempt' = first_attempt(fFn)
    /\ fBackoff' = FirstBackoff
    /\ fSleeps' = <<>>
    /\ fOutcomes' = <<>>
    /\ UNCHANGED <<fFn, fResults>>
    /\ UNCHANGED notFetch

\* one turn of the loop: the request, and on failure either the raise of
\* the last attempt or the sleep before the next one; past the loop, the
\* final raise
FetchAttempt ==
    /\ fpc = "loop"
    /\ IF ~in_range(fFn, fAttempt)
       THEN /\ fpc' = "idle"
            /\ fResults' = Append(fResults, "raised")
            /\ UNCHANGED <<fAttempt, fBackoff, fSleeps, fOutcomes>>
       ELSE \E response \in Responses :
              /\ fOutcomes' = Append(fOutcomes, response)
              /\ IF response = "ok"
                 THEN /\ fpc' = "idle"
                      /\ fResults' = Append(fResults, "returned")
                      /\ UNCHANGED <<fAttempt, fBackoff, fSleeps>>
                 ELSE IF is_last(fFn, fAttempt)
                 THEN /\ fpc' = "idle"
                      /\ fResults' = Append(fResults, "raised")
                      /\ UNCHANGED <<fAttempt, fBackoff, fSleeps>>
                 ELSE /\ fSleeps' = Append(fSleeps, fBackoff)
                      /\ fBackoff' = fBackoff * 2
                      /\ fAttempt' = fAttempt + 1
                      /\ UNCHANGED <<fpc, fResults>>
    /\ UNCHANGED fFn
    /\ UNCHANGED notFetch

FetchNext == FetchCall \/ FetchAttempt

InitFetch == FetchInit /\ LayoutIdle /\ SrcIdle /\ NormIdle /\ LinkIdle /\ DlIdle /\ MigIdle /\ ExcerptIdle /\ RestoreIdle /\ PostsIdle /\ IndexIdle /\ SeoIdle /\ CasesIdle

SpecFetch == InitFetch /\ [][FetchNext]_vars

RECURSIVE Pow2(_)
Pow2(n) == IF n = 0 THEN 1 ELSE 2 * Pow2(n - 1)

\* a call has been made and has ended
FetchEnded == fpc = "idle" /\ fResults # <<>>

\* C18: a call makes at most 3 attempts, none after one that succeeded;
\* it sleeps 1 s, then 2 s, only between two attempts; it returns when an
\* attempt succeeds and raises when the third attempt has failed
C18_ThreeAttemptsWithBackoff ==
    /\ Len(fOutcomes) <= Retries
    /\ \A i \in 1 .. (Len(fOutcomes) - 1) : fOutcomes[i] # "ok"
    /\ fSleeps = [i \in 1 .. Len(fSleeps) |-> Pow2(i - 1)]
    /\ fpc = "loop" => Len(fSleeps) = Len(fOutcomes) /\ Len(fOutcomes) < Retries
    /\ FetchEnded =>
          /\ fOutcomes # <<>>
          /\ Len(fSleeps) = Len(fOutcomes) - 1
          /\ fResults[Len(fResults)] =
                IF fOutcomes[Len(fOutcomes)] = "ok" THEN "returned" ELSE "raised"
          /\ fResults[Len(fResults)] = "raised" => Len(fOutcomes) = Retries

\* a call whose three attempts failed: it slept 1 s and 2 s and raised
C18_Witness ==
    /\ FetchEnded
    /\ Len(fOutcomes) = Retries
    /\ fSleeps = <<1, 2>>
    /\ fResults[Len(fResults)] = "raised"

-----------------------------------------------------------------------------
(* restore_article_content.py: extract_body_html, build_main and main *)

HasAttr(node, attr) == attr \in node.attrs

\* every element and text below nodes, in document order
RECURSIVE Descendants(_)
Descendants(nodes) ==
    IF nodes = <<>> THEN <<>>
    ELSE <<Head(nodes)>> \o Descendants(Head(nodes).kids) \o Descendants(Tail(nodes))

IsWpPost(node) == node.tag = "div" /\ HasAttr(node, "data-elementor-type=wp-post")
IsArticle(node) == node.tag = "article"
IsWidget(node) == HasAttr(node, "class=elementor-widget")
IsWidgetContainer(node) == HasAttr(node, "class=elementor-widget-container")
IsTextEditor(node) == HasAttr(node, "class=elementor-text-editor")
IsEntryContent(node) == HasAttr(node, "class=entry-content")
IsSpacer(node) ==
    HasAttr(node, "data-widget_type=spacer.default")
        \/ HasAttr(node, "data-widget_type=divider.default")
HasText(node) == node.tag = "#text" /\ Strip(node.text) # <<>>

\* main(), line 263: the wp-post div, else the first article, else None
post_div_of(source) ==
    IF SelectSeq(Descendants(source), IsWpPost) # <<>>
    THEN SelectSeq(Descendants(source), IsWpPost)[1]
    ELSE IF SelectSeq(Descendants(source), IsArticle) # <<>>
    THEN SelectSeq(Descendants(source), IsArticle)[1]
    ELSE NoNode

AllowedTags == {"p", "h2", "h3", "h4", "h5", "h6", "ul", "ol", "table",
                "blockquote", "figure", "img", "iframe"}

\* the allowed elements that have no allowed element above them
RECURSIVE Included(_)
Included(nodes) ==
    IF nodes = <<>> THEN <<>>
    ELSE (IF Head(nodes).tag \in AllowedTags THEN <<Head(nodes)>>
          ELSE Included(Head(nodes).kids))
         \o Included(Tail(nodes))

Newline == [k |-> "text", n |-> Text(-3, <<"\n">>)]

\* "\n".join(pieces), each piece a token stream
RECURSIVE JoinLines(_)
JoinLines(pieces) ==
    IF pieces = <<>> THEN <<>>
    ELSE IF Len(pieces) = 1 THEN pieces[1]
    ELSE pieces[1] \o <<Newline>> \o JoinLines(Tail(pieces))

RECURSIVE EachDecoded(_)
EachDecoded(nodes) ==
    IF nodes = <<>> THEN <<>>
    ELSE <<decode(<<Head(nodes)>>)>> \o EachDecoded(Tail(nodes))

\* extract_from_container (lines 113-143)
extract_from_container(container) ==
    IF container = NoNode THEN <<>>
    ELSE IF SelectSeq(Descendants(container.kids), IsTextEditor) # <<>>
    THEN decode(SelectSeq(Descendants(container.kids), IsTextEditor)[1].kids)
    ELSE IF Included(container.kids) # <<>>
    THEN JoinLines(EachDecoded(Included(container.kids)))
    ELSE IF SelectSeq(Descendants(container.kids), HasText) # <<>>
    THEN decode(container.kids)
    ELSE <<>>

\* lines 145-151: the html of one widget, or nothing for a spacer
widget_html(widget) ==
    IF IsSpacer(widget) THEN <<>>
    ELSE IF SelectSeq(Descendants(widget.kids), IsWidgetContainer) # <<>>
    THEN extract_from_container(SelectSeq(Descendants(widget.kids), IsWidgetContainer)[1])
    ELSE extract_from_container(widget)

\* lines 109-111 and 145-152: the pieces that are not blank
RECURSIVE widget_pieces(_)
widget_pieces(widgets) ==
    IF widgets = <<>> THEN <<>>
    ELSE (IF BlankHtml(widget_html(Head(widgets))) THEN <<>>
          ELSE <<widget_html(Head(widgets))>>)
         \o widget_pieces(Tail(widgets))

\* extract_body_html (lines 102-158)
restore_extract_body_html(post_div) ==
    IF post_div = NoNode THEN <<>>
    ELSE IF widget_pieces(SelectSeq(Descendants(post_div.kids), IsWidget)) # <<>>
    THEN JoinLines(widget_pieces(SelectSeq(Descendants(post_div.kids), IsWidget)))
    ELSE IF SelectSeq(Descendants(post_div.kids), IsEntryContent) # <<>>
    THEN extract_from_container(SelectSeq(Descendants(post_div.kids), IsEntryContent)[1])
    ELSE extract_from_container(post_div)

\* pick_image_url (lines 45-64) for an img that carries only src
restore_pick_image_url(img) ==
    IF Usable(img.src) THEN urljoin(BASE_URL, img.src) ELSE None

\* main(), lines 272-276: the imgs of the body one after the other; their
\* names have an extension, so the clock is not read
RECURSIVE restore_images(_, _, _, _, _)
restore_images(imgs, slug, outcome, body, existing) ==
    IF imgs = <<>> THEN [body |-> body, existing |-> existing]
    ELSE LET img == Head(imgs)
             img_url == restore_pick_image_url(img)
             r == IF img_url = None
                  THEN [result |-> None, existing |-> existing]
                  ELSE restore_download_image(img_url, slug, outcome, T_now, existing)
         IN  restore_images(Tail(imgs), slug, outcome,
                            IF r.result # None /\ r.result # <<>>
                            THEN ReplaceId(body, img.id, <<[img EXCEPT !.src = r.result]>>)
                            ELSE body,
                            r.existing)

\* main(), lines 291-299 for a post without coverImagePath and a source
\* page without og:image: the src of the first img of the body
first_img_src(body) ==
    IF FindAll(body, "img") # <<>> /\ FindAll(body, "img")[1].src \notin {Absent, <<>>}
    THEN FindAll(body, "img")[1].src
    ELSE None

\* build_main (lines 192-225); the texts of the heading block are left out
restore_build_main(cover_path, body) ==
    Mk("main", 100,
       <<Mk("section", 101,
            <<Mk("div", 102,
                 <<Mk("p", 103, <<>>), Mk("h1", 104, <<>>)>>
                 \o (IF cover_path # None
                     THEN <<Mk("figure", 105, <<Img(106, cover_path)>>)>>
                     ELSE <<>>)
                 \o <<Mk("article", 107, body)>>)>>)>>)

\* main(), lines 307-312 for a page with a body
put_main(doc, new_main) ==
    IF FindPath(doc.body.kids, "main") # <<>>
    THEN [doc EXCEPT !.body.kids =
             ReplaceId(@, Last(FindPath(doc.body.kids, "main")).id, <<new_main>>)]
    ELSE [doc EXCEPT !.body.kids = Append(@, new_main)]

\* the article files before the run
LocalDocs ==
    {Doc(TRUE, TRUE, <<>>, TRUE, <<Mk("header", 1, <<>>), Mk("main", 2, <<Mk("p", 3, <<>>)>>)>>),
     Doc(TRUE, TRUE, <<>>, TRUE, <<Mk("p", 4, <<>>)>>),
     Doc(TRUE, FALSE, <<>>, TRUE, <<Mk("main", 5, <<>>)>>),
     Doc(TRUE, TRUE, <<>>, FALSE, <<>>)}

Words3 == <<"a", "b", "c">>

Widget(id, type, kids) ==
    [Mk("div", id, kids) EXCEPT !.attrs = {"class=elementor-widget", type}]

\* the bodies the source site serves
SourceBodies ==
    {\* a page-builder post: a text widget, an image widget and a spacer
     <<[Mk("div", 20, <<Widget(21, "data-widget_type=text-editor.default",
                               <<[Mk("div", 22, <<Mk("p", 23, <<Text(24, Words3)>>)>>)
                                     EXCEPT !.attrs = {"class=elementor-widget-container"}]>>),
                        Widget(25, "data-widget_type=image.default", <<Img(26, U_photoA)>>),
                        Widget(27, "data-widget_type=spacer.default", <<>>)>>)
           EXCEPT !.attrs = {"data-elementor-type=wp-post"}]>>,
     \* an article element
     <<Mk("article", 30, <<Mk("h2", 31, <<Text(32, Words3)>>), Img(33, U_photoQ)>>)>>,
     \* no container at all: the content sits in the body
     <<Mk("p", 40, <<Text(41, Words3)>>), Img(42, U_photoA)>>,
     \* an article element without content
     <<Mk("article", 50, <<>>)>>}

RestoreSlugs == <<K_known, K_second>>

NoPage == [page |-> <<>>, local |-> NoDoc, source |-> <<>>, body_html |-> Unset,
           outcome |-> "none", raised |-> FALSE]

RestoreInit ==
    /\ rpc = "idle"
    /\ rqueue = <<>>
    /\ rfiles \in [Range(RestoreSlugs) -> LocalDocs]
    /\ rreport = <<>>
    /\ rreportFile = <<>>
    /\ rlast = NoPage
    /\ image_cache = <<>>
    /\ disk = {}
    /\ baixadas = 0
    /\ dpc = "idle"
    /\ druns = 0
    /\ dcalls = 0
    /\ dhist = <<>>

\* main(), lines 228-245
RestoreStart ==
    /\ rpc = "idle"
    /\ rreportFile = <<>>
    /\ rpc' = "running"
    /\ rqueue' = RestoreSlugs
    /\ rreport' = [totalArticles |-> 0, fixedOK |-> 0, skipped |-> <<>>]
    /\ UNCHANGED <<rfiles, rreportFile, rlast>>
    /\ UNCHANGED dlVars
    /\ UNCHANGED notRestore

Skip(rep, page, reason) ==
    [rep EXCEPT !.totalArticles = @ + 1,
                !.skipped = Append(@, [file |-> page, reason |-> reason])]

\* main(), lines 247-318: one article file. io tells whether read_text or
\* write_text raises, fetched whether fetch raises, outcome what the image
\* requests do; the source bodies hold no anchors, so rewrite_internal_links
\* (line 270) leaves them as they are
RestorePage ==
    /\ rpc = "running"
    /\ rqueue # <<>>
    /\ \E io \in {"ok", "read raises", "write raises"}, fetched \in {"ok", "error"},
          source \in SourceBodies, outcome \in {"ok", "empty", "error"} :
        LET page == Head(rqueue)
            local == rfiles[page]
            seen == [page |-> page, local |-> local, source |-> <<>>,
                     body_html |-> Unset, outcome |-> "none", raised |-> FALSE]
        IN  IF io = "read raises"
            THEN /\ rpc' = "aborted"
                 /\ rreport' = [rreport EXCEPT !.totalArticles = @ + 1]
                 /\ rlast' = [seen EXCEPT !.outcome = "aborted", !.raised = TRUE]
                 /\ UNCHANGED <<rqueue, rfiles, disk>>
            ELSE IF fetched = "error"
            THEN /\ rreport' = Skip(rreport, page, "fetch failed")
                 /\ rlast' = [seen EXCEPT !.outcome = "skipped", !.raised = TRUE]
                 /\ rqueue' = Tail(rqueue)
                 /\ UNCHANGED <<rpc, rfiles, disk>>
            ELSE \E body_html \in {restore_extract_body_html(post_div_of(source))} :
                 IF body_html = <<>>
                 THEN /\ rreport' = Skip(rreport, page, "no body content")
                      /\ rlast' = [seen EXCEPT !.source = source, !.body_html = body_html,
                                               !.outcome = "skipped"]
                      /\ rqueue' = Tail(rqueue)
                      /\ UNCHANGED <<rpc, rfiles, disk>>
                 ELSE \E r \in {restore_images(FindAll(html_parser(body_html), "img"),
                                               page, outcome, html_parser(body_html), disk)} :
                      /\ disk' = r.existing
                      /\ IF ~local.hasBody
                         THEN /\ rreport' = Skip(rreport, page, "missing body")
                              /\ rlast' = [seen EXCEPT !.source = source,
                                              !.body_html = body_html, !.outcome = "skipped"]
                              /\ rqueue' = Tail(rqueue)
                              /\ UNCHANGED <<rpc, rfiles>>
                         ELSE IF io = "write raises"
                         THEN /\ rpc' = "aborted"
                              /\ rreport' = [rreport EXCEPT !.totalArticles = @ + 1]
                              /\ rlast' = [seen EXCEPT !.source = source,
                                              !.body_html = body_html,
                                              !.outcome = "aborted", !.raised = TRUE]
                              /\ UNCHANGED <<rqueue, rfiles>>
                         ELSE /\ rfiles' = [rfiles EXCEPT ![page] =
                                     OnDisk(put_main(local,
                                         restore_build_main(first_img_src(r.body), r.body)))]
                              /\ rreport' = [rreport EXCEPT !.totalArticles = @ + 1,
                                                            !.fixedOK = @ + 1]
                              /\ rlast' = [seen EXCEPT !.source = source,
                                              !.body_html = body_html, !.outcome = "fixed"]
                              /\ rqueue' = Tail(rqueue)
                              /\ UNCHANGED rpc
    /\ UNCHANGED rreportFile
    /\ UNCHANGED <<image_cache, baixadas, dpc, druns, dcalls, dhist>>
    /\ UNCHANGED notRestore

\* main(), line 320
RestoreFinish ==
    /\ rpc = "running"
    /\ rqueue = <<>>
    /\ rpc' = "idle"
    /\ rreportFile' = rreport
    /\ UNCHANGED <<rqueue, rfiles, rreport, rlast>>
    /\ UNCHANGED dlVars
    /\ UNCHANGED notRestore

RestoreNext == RestoreStart \/ RestorePage \/ RestoreFinish

InitRestore == RestoreInit /\ LayoutIdle /\ SrcIdle /\ NormIdle /\ LinkIdle /\ MigIdle /\ ExcerptIdle /\ FetchIdle /\ PostsIdle /\ IndexIdle /\ SeoIdle /\ CasesIdle

SpecRestore == InitRestore /\ [][RestoreNext]_vars

-----------------------------------------------------------------------------
(* Claims about the page loop of restore_article_content.py *)

SkippedFiles(rep) == {rep.skipped[k].file : k \in 1 .. Len(rep.skipped)}

\* C17: an exception raised while a page is processed becomes an entry of
\* the report and the run goes on to the later pages and to the report file
C17_PageExceptionsReported ==
    rlast.raised => rpc # "aborted" /\ rlast.page \in SkippedFiles(rreport)

\* the fetched page has content in its body and no container for it
NoContainer(source) ==
    /\ post_div_of(source) = NoNode
    /\ SelectSeq(Descendants(source), HasText) # <<>>

\* C19: for a fetched page without a content container the extracted body
\* is the inner HTML of the whole body, never empty, and the page is not
\* dropped for lack of a container
C19_FallsBackToWholeBody ==
    NoContainer(rlast.source) =>
        /\ rlast.body_html = decode(rlast.source)
        /\ \A k \in 1 .. Len(rreport.skipped) :
              rreport.skipped[k].file = rlast.page =>
                  rreport.skipped[k].reason # "no body content"

\* C20: an article file without head or without body is skipped: it is
\* in the skipped list, it is not rewritten and it is not counted
C20_NoHeadOrBodySkipped ==
    rlast.outcome \in {"fixed", "skipped"}
        /\ (~rlast.local.hasHead \/ ~rlast.local.hasBody) =>
            /\ rlast.outcome = "skipped"
            /\ rlast.page \in SkippedFiles(rreport)
            /\ rfiles[rlast.page] = rlast.local

-----------------------------------------------------------------------------
(* data/posts.json as the two migrators write it                            *)
(*   migrar_blog_fcge.py: main, lines 568-693                               *)
(*   sync_blog_single_page.py: load_or_sync_posts, process_existing_posts,  *)
(*   main, lines 481-543 and 1022-1026                                      *)
(* A post is [slug, dateISO]; the other fields of a record play no part in  *)
(* the order or in the identity of the records.                             *)

\* the characters of a date string, in code point order
DateChars == <<"-","0","1","2","3","4","5","6","7","8","9">>

Ord(c) == CHOOSE i \in 1 .. Len(DateChars) : DateChars[i] = c

\* a < b of two Python strings
str_lt(a, b) ==
    \E i \in 1 .. Len(b) :
        /\ i <= Len(a) + 1
        /\ \A j \in 1 .. (i - 1) : a[j] = b[j]
        /\ (i = Len(a) + 1 \/ Ord(a[i]) < Ord(b[i]))

\* "%04d" / "%02d" of strftime and isoformat
ZeroPad(n, width) ==
    LET s == IntToStr(n) IN
    [i \in 1 .. (width - Len(s)) |-> "0"] \o s

\* dt.strftime("%Y-%m-%d") (migrar, lines 639, 645, 648) and
\* date().isoformat() (sync, parse_date_text, lines 119-143)
strftime(dt) ==
    ZeroPad(dt[1], 4) \o <<"-">> \o ZeroPad(dt[2], 2) \o <<"-">> \o ZeroPad(dt[3], 2)

\* the mutant: the sort without reverse=True
key_before_forward(a, b) == str_lt(a.dateISO, b.dateISO)

\* sort(key=lambda p: p.get("dateISO", ""), reverse=True): a goes before b
key_before(a, b) == str_lt(b.dateISO, a.dateISO)

RECURSIVE insert_sorted(_, _)
\* x put behind the records that do not sort after it (the sort is stable)
insert_sorted(s, x) ==
    IF s = <<>> THEN <<x>>
    ELSE IF key_before(x, s[1]) THEN <<x>> \o s
    ELSE <<s[1]>> \o insert_sorted(Tail(s), x)

RECURSIVE sort_reverse(_)
\* list.sort(..., reverse=True), migrar line 689, sync lines 503 and 542
sort_reverse(s) ==
    IF s = <<>> THEN <<>>
    ELSE insert_sorted(sort_reverse(SubSeq(s, 1, Len(s) - 1)), s[Len(s)])

\* posts[slug] = {...} of a dict: a known key keeps its place and takes the
\* new value (migrar collect_index_posts, lines 226-234)
dict_put(d, e) ==
    IF \E i \in 1 .. Len(d) : d[i].slug = e.slug
    THEN [i \in 1 .. Len(d) |-> IF d[i].slug = e.slug THEN e ELSE d[i]]
    ELSE Append(d, e)

RECURSIVE index_posts_of(_)
\* the dict collect_index_posts returns for the articles found, in order
index_posts_of(found) ==
    IF found = <<>> THEN <<>>
    ELSE dict_put(index_posts_of(SubSeq(found, 1, Len(found) - 1)),
                  found[Len(found)])

\* what a migrated page gives to the collection
PostRecord(e) == [slug |-> e.slug, dateISO |-> strftime(e.date)]

Fetched(e) == e.ok

\* the loop of migrar main, lines 585-686: a page whose migration raises
\* adds nothing to posts_output
posts_output_of(index_posts) ==
    LET migrated == SelectSeq(index_posts, Fetched) IN
    [i \in 1 .. Len(migrated) |-> PostRecord(migrated[i])]

\* migrar main, lines 688-693
migrar_posts_json(found) == sort_reverse(posts_output_of(index_posts_of(found)))

RECURSIVE discover_post_urls(_, _)
\* sync discover_post_urls, lines 179-186: a slug already seen is passed over
discover_post_urls(found, seen) ==
    IF found = <<>> THEN <<>>
    ELSE IF found[1].slug \in seen THEN discover_post_urls(Tail(found), seen)
    ELSE <<found[1]>> \o discover_post_urls(Tail(found), seen \cup {found[1].slug})

\* sync load_or_sync_posts, lines 481-504
load_or_sync_posts(file, refresh, found) ==
    IF file.exists /\ ~refresh THEN file.records
    ELSE sort_reverse(posts_output_of(discover_post_urls(found, {})))

HasSlug(post) == post.slug # ""

\* sync process_existing_posts, lines 507-543
process_existing_posts(plist) == sort_reverse(SelectSeq(plist, HasSlug))

\* sync main, lines 1022-1026
sync_posts_json(file, refresh, found) ==
    process_existing_posts(load_or_sync_posts(file, refresh, found))

\* ---- inputs
\* articles found on the index pages of one run
MaxFound == 3
\* runs of the migrators over the same site directory
MaxPostRuns == 2

FoundSlugs == {"gestao", "lucro"}
PublishDates == {<<2023, 12, 1>>, <<2024, 2, 3>>}

\* an article of the index: its slug, the publish date of its page and
\* whether its page could be migrated
FoundEntries == [slug : FoundSlugs, date : PublishDates, ok : BOOLEAN]

FoundLists == UNION {SeqsOf(FoundEntries, n) : n \in 0 .. MaxFound}

\* the index lists an article twice
Repeated(found) ==
    \E i, j \in 1 .. Len(found) : i < j /\ found[i].slug = found[j].slug

\* the index lists an older article before a newer one
Rising(found) ==
    \E i, j \in 1 .. Len(found) :
        /\ i < j
        /\ found[i].ok /\ found[j].ok
        /\ found[i].slug # found[j].slug
        /\ found[i].date[1] * 10000 + found[i].date[2] * 100 + found[i].date[3]
             < found[j].date[1] * 10000 + found[j].date[2] * 100 + found[j].date[3]

PostsInit ==
    /\ posts_json = NoPostsFile
    /\ pruns = 0
    /\ plast = <<>>

\* one run of migrar_blog_fcge.py
MigrarWritesPosts ==
    /\ pruns < MaxPostRuns
    /\ \E found \in FoundLists :
          /\ posts_json' = [exists |-> TRUE, records |-> migrar_posts_json(found)]
          /\ plast' = [by |-> "migrar", refresh |-> TRUE,
                       repeated |-> Repeated(found), rising |-> Rising(found)]
    /\ pruns' = pruns + 1
    /\ UNCHANGED notPosts

\* the index is read only when load_or_sync_posts goes to the site
\* (lines 489-493)
Discovered(file, refresh) ==
    IF file.exists /\ ~refresh THEN {<<>>} ELSE FoundLists

\* one run of sync_blog_single_page.py, with or without --refresh
SyncWritesPosts ==
    /\ pruns < MaxPostRuns
    /\ \E refresh \in BOOLEAN :
       \E found \in Discovered(posts_json, refresh) :
          /\ posts_json' = [exists |-> TRUE,
                            records |-> sync_posts_json(posts_json, refresh, found)]
          /\ plast' = [by |-> "sync", refresh |-> refresh,
                       repeated |-> Repeated(found), rising |-> Rising(found)]
    /\ pruns' = pruns + 1
    /\ UNCHANGED notPosts

PostsNext == MigrarWritesPosts \/ SyncWritesPosts

InitPosts == PostsInit /\ LayoutIdle /\ SrcIdle /\ NormIdle /\ LinkIdle /\ DlIdle /\ MigIdle /\ ExcerptIdle /\ FetchIdle /\ RestoreIdle /\ IndexIdle /\ SeoIdle /\ CasesIdle

SpecPosts == InitPosts /\ [][PostsNext]_vars

-----------------------------------------------------------------------------
(* Claims about data/posts.json *)

\* the digits of a date string read back as a number that orders like the date
RECURSIVE DateValue(_)
DateValue(s) ==
    IF s = <<>> THEN 0
    ELSE IF Last(s) = "-" THEN DateValue(SubSeq(s, 1, Len(s) - 1))
    ELSE 10 * DateValue(SubSeq(s, 1, Len(s) - 1)) + (Ord(Last(s)) - 2)

\* the records of data/posts.json
Records == posts_json.records

\* C21: the collection a migrator writes is ordered by non-increasing
\* publish date and no two of its records have the same slug
C21_PostsOrderedUniqueSlugs ==
    posts_json.exists =>
        /\ \A i \in 1 .. (Len(Records) - 1) :
              DateValue(Records[i].dateISO) >= DateValue(Records[i + 1].dateISO)
        /\ \A i, j \in 1 .. Len(Records) :
              Records[i].slug = Records[j].slug => i = j

\* a run found an article twice and an older article before a newer one,
\* and wrote two records
C21_Witness ==
    /\ posts_json.exists
    /\ Len(Records) = 2
    /\ Records[1].dateISO # Records[2].dateISO
    /\ plast.repeated
    /\ plast.rising

-----------------------------------------------------------------------------
(* Claims about the template of fix_article_layout.py *)

\* C22: composing a page leaves the template as it was loaded: its header,
\* its footer, the assets of its head and the attributes of its body and
\* of its main are the same for every page of the run, at any depth
C22_TemplateNeverMutated == [][template' = template]_vars

\* pages at depth 1 and depth 2 were composed, one after the other, from a
\* template whose header holds relative references
C22_Witness ==
    /\ composed[1] > 0
    /\ composed[2] > 0
    /\ \E v \in Range(Refs(<<template.header>>)) : IsRelativeRef(v)

-----------------------------------------------------------------------------
(* Claims about remove_image *)

\* the <a> and <figure> tags of a body that are left with no non-blank child
IsEmptyWrapper(node) ==
    node.tag \in {"a", "figure"} /\ SelectSeq(node.kids, NotBlank) = <<>>

\* the images the normalization took out of a body
RemovedImages(before, after) ==
    {img.id : img \in Range(FindAll(before, "img"))}
        \ {img.id : img \in Range(FindAll(after, "img"))}

\* the <a> and <figure> tags of the body that enclosed one of these images
WrappersOf(before, images) ==
    {w \in Range(Descendants(before)) :
        /\ w.tag \in {"a", "figure"}
        /\ {d.id : d \in Range(Descendants(w.kids))} \cap images # {}}

\* C23: once an image is removed, no <a> or <figure> that enclosed it stays
\* in the body without non-blank content, a <figure> around the <a> of the
\* image included
C23_NoEmptyWrapperLeft ==
    \A i \in Normalized :
        LET before == html_parser(loaded[i].contentHtml)
            after == html_parser(posts[i].contentHtml)
        IN  \A w \in WrappersOf(before, RemovedImages(before, after)) :
               \A left \in Range(NodeById(after, w.id)) : ~IsEmptyWrapper(left)

-----------------------------------------------------------------------------
(* sync_blog_single_page.py: replace_post_href_links, lines 368-379          *)
(* The text is taken as the values of its href="..." attributes, in order:   *)
(* both patterns begin with href= and run from one quote to the next, so an  *)
(* attribute is replaced as a whole or not at all.                           *)

\* the place of a regular expression that takes any one character
AnyChar == "(any)"

\* \\. inside the raw f-string of line 373: the regular expression \\ . ,
\* a backslash and then any character
EscapedDot == <<"\\", AnyChar>>

S_fcgestao == <<"f","c","g","e","s","t","a","o","e","s","t","r","a","t","e","g","i","c","a">>

\* x? of a regular expression
Optional(part) == {<<>>, part}

\* line 373: href=["\']https?://(?:www\\.)?fcgestaoestrategica\\.com\\.br/<slug>/?["\']
href_re_absolute(slug) ==
    {<<"h","t","t","p">> \o s \o <<":","/","/">> \o w \o S_fcgestao \o EscapedDot
        \o <<"c","o","m">> \o EscapedDot \o <<"b","r","/">> \o slug \o t :
        s \in Optional(<<"s">>),
        w \in Optional(<<"w","w","w">> \o EscapedDot),
        t \in Optional(<<"/">>)}

\* line 374: href=["\']/<slug>/?["\']
href_re_root(slug) == {<<"/">> \o slug \o t : t \in Optional(<<"/">>)}

\* the value between the quotes is one of the strings of the pattern
\* (flags=re.IGNORECASE)
re_match(pattern, value) ==
    \E items \in pattern :
        /\ Len(items) = Len(value)
        /\ \A i \in 1 .. Len(items) :
              items[i] = AnyChar \/ LowerChar(items[i]) = LowerChar(value[i])

Matched(pattern, hrefs) ==
    {i \in 1 .. Len(hrefs) : hrefs[i] # Absent /\ re_match(pattern, hrefs[i])}

\* re.subn(pattern, f'href="{target}"', updated), line 377
re_subn(pattern, target, hrefs) ==
    [updated |-> [i \in 1 .. Len(hrefs) |->
                     IF i \in Matched(pattern, hrefs) THEN target ELSE hrefs[i]],
     count |-> Cardinality(Matched(pattern, hrefs))]

\* lines 371-378 for one item of slug_map: the two patterns in turn
replace_for_slug(state, item) ==
    LET first == re_subn(href_re_absolute(item.slug), item.target, state.updated)
        second == re_subn(href_re_root(item.slug), item.target, first.updated)
    IN  [updated |-> second.updated,
         total |-> state.total + first.count + second.count]

RECURSIVE replace_loop(_, _)
replace_loop(state, items) ==
    IF items = <<>> THEN state
    ELSE replace_loop(replace_for_slug(state, Head(items)), Tail(items))

replace_post_href_links(hrefs, slug_map) ==
    replace_loop([updated |-> hrefs, total |-> 0], slug_map)

S_postAnchor == <<"b","l","o","g",".","h","t","m","l","#","p","o","s","t","-">>

\* main, line 1020: slug -> "blog.html#post-<slug>", in the order of the
\* article files
slug_map_of(slugs) ==
    [i \in 1 .. Len(slugs) |-> [slug |-> slugs[i], target |-> S_postAnchor \o slugs[i]]]

\* ---- inputs
\* the legacy addresses of an article: http or https, with or without
\* "www.", with or without the closing slash, and the root-relative path
LegacyAbsolute(slug) ==
    {<<"h","t","t","p">> \o s \o <<":","/","/">> \o w \o S_domain \o <<"/">> \o slug \o t :
        s \in Optional(<<"s">>), w \in Optional(<<"w","w","w",".">>),
        t \in Optional(<<"/">>)}

LegacyRoot(slug) == {<<"/">> \o slug \o t : t \in Optional(<<"/">>)}

\* an address that spells the backslashes of the pattern out
L_backslashed ==
    <<"h","t","t","p","s",":","/","/">> \o S_fcgestao \o <<"\\",".","c","o","m","\\",".","b","r","/">>
        \o K_known \o <<"/">>

SyncHrefs ==
    LegacyAbsolute(K_known) \cup LegacyRoot(K_known)
        \cup {L_absKnown, Upper(L_rootKnown), <<"/">> \o K_second \o <<"/">>,
              L_absUnknown, L_rootUnknown, L_external, L_backslashed, L_relative,
              Absent}

SyncLinkInit ==
    /\ anchors \in SeqsOf(SyncHrefs, MaxAnchors)
    /\ rewriter = "none"
    /\ rewritten = <<>>
    /\ rewrites = 0

\* clean_content_html, lines 391-392
ReplacePostHrefLinks ==
    /\ rewriter = "none"
    /\ rewriter' = "sync"
    /\ \E r \in {replace_post_href_links(anchors, slug_map_of(<<K_known, K_second>>))} :
          /\ rewritten' = r.updated
          /\ rewrites' = r.total
    /\ UNCHANGED anchors
    /\ UNCHANGED notLinks

SyncLinkNext == ReplacePostHrefLinks

InitSyncLinks == SyncLinkInit /\ LayoutIdle /\ SrcIdle /\ NormIdle /\ DlIdle /\ MigIdle /\ ExcerptIdle /\ FetchIdle /\ RestoreIdle /\ PostsIdle /\ IndexIdle /\ SeoIdle /\ CasesIdle

SpecSyncLinks == InitSyncLinks /\ [][SyncLinkNext]_vars

-----------------------------------------------------------------------------
(* Claims about replace_post_href_links *)

\* the slugs of the slug map whose legacy address the href is
LegacySlugsOf(href) ==
    {slug \in {K_known, K_second} :
        href # Absent /\ Lower(href) \in LegacyAbsolute(slug) \cup LegacyRoot(slug)}

\* C24: an href that is the absolute legacy URL of a slug of the slug map
\* (http or https, with or without www., with or without the closing
\* slash) or the path /<slug>/ points to the in-page anchor of the slug
\* afterwards, and the count returned is the number of hrefs changed
C24_LegacyHrefsRewritten ==
    rewriter = "sync" =>
        /\ \A i \in 1 .. Len(anchors) :
              \A slug \in LegacySlugsOf(anchors[i]) :
                  rewritten[i] = S_postAnchor \o slug
        /\ rewrites = Cardinality({i \in 1 .. Len(anchors) : rewritten[i] # anchors[i]})

\* C25: when a run is over, its report accounts for every article once:
\* totalArticles is fixedOK plus the number of skipped entries, and a page
\* counted as fixed is not in the skipped list
C25_EveryInputAccountedOnce ==
    rpc # "running" /\ rlast.outcome # "none" =>
        /\ rreport.totalArticles = rreport.fixedOK + Len(rreport.skipped)
        /\ (rlast.outcome = "fixed" => rlast.page \notin SkippedFiles(rreport))

-----------------------------------------------------------------------------
(* Claims about composing a composed page again *)

\* the <main> of a composed body: header, main, footer, then the scripts
MainOf(doc) == doc.body.kids[2]

\* C26: composing a composed page again leaves every href and src inside
\* <main> as the first composition wrote it and leaves the number of script
\* elements of the body as it was, at every depth
C26_ComposedPageIsFixedPoint ==
    \A p \in Pages :
        composed[p] >= 2 =>
            /\ Refs(<<MainOf(files[p])>>) = Refs(<<MainOf(firstOut[p])>>)
            /\ Len(FindAll(files[p].body.kids, "script"))
                  = Len(FindAll(firstOut[p].body.kids, "script"))

-----------------------------------------------------------------------------
(* Claims about normalize_src applied to its own result *)

\* C27: the dedup key of a dedup key is that key: normalize_src applied to
\* what normalize_src returned changes nothing, whatever generated suffixes
\* the filename carried and in whatever order
C27_NormalizeSrcIdempotent ==
    srcOut # Unset => normalize_src(srcOut) = srcOut

-----------------------------------------------------------------------------
(* Discovery of the articles on the paginated blog index                    *)
(*   migrar_blog_fcge.py: collect_index_posts, lines 185-246                *)
(*   sync_blog_single_page.py: discover_post_urls, lines 169-197            *)
(* An index page is known by its number: page 1 is the start of the index.  *)
(* What a page holds is chosen when it is fetched.                          *)

\* range(1, 10) of discover_post_urls, line 173
FirstPage == 1
PageStop == 10

\* an empty_streak of 2 ends the loop, line 190
StreakLimit == 2

\* ---- bounds
\* index pages the site links to in its pagination
MaxIndexUrls == 3
\* article links on one index page
MaxLinks == 1
\* times one URL is let through to the network
MaxFetchesPerUrl == 2

IndexUrls == 1 .. MaxIndexUrls
\* enough articles for nine index pages of which every second is new
IndexSlugs == {"gestao", "lucro", "metas", "caixa", "vendas"}

\* the article links of an index page: the slug slug_from_url gives for
\* each, "" for a link that is not an article
LinkLists == UNION {SeqsOf(IndexSlugs \cup {""}, n) : n \in 0 .. MaxLinks}

\* no "next" link on the page
NoNext == 0

\* mutant: the page is not remembered
mark_visited_never(visited, page_url) == visited

\* visited.add(page_url), migrar line 194
mark_visited(visited, page_url) == visited \cup {page_url}

RECURSIVE posts_of_page(_, _)
\* migrar lines 199-234: posts[slug] = {...} for the article links of the
\* page; only the keys of the dict are kept, in insertion order
posts_of_page(keys, links) ==
    IF links = <<>> THEN keys
    ELSE IF Head(links) = "" \/ Head(links) \in Range(keys)
    THEN posts_of_page(keys, Tail(links))
    ELSE posts_of_page(Append(keys, Head(links)), Tail(links))

RECURSIVE page_urls_of(_, _)
\* sync lines 179-186: the slugs of the page that were not seen before
page_urls_of(links, seen) ==
    IF links = <<>> THEN <<>>
    ELSE IF Head(links) = "" \/ Head(links) \in seen
    THEN page_urls_of(Tail(links), seen)
    ELSE <<Head(links)>> \o page_urls_of(Tail(links), seen \cup {Head(links)})

NoIndexHist == [skipped |-> 0, failed |-> FALSE, streak_end |-> FALSE]

IndexInit ==
    /\ iFn \in {"migrar", "sync"}
    /\ ipc = "loop"
    /\ iqueue = IF iFn = "migrar" THEN <<FirstPage>> ELSE <<>>
    /\ ivisited = {}
    /\ ipage = IF iFn = "sync" THEN FirstPage ELSE 0
    /\ istreak = 0
    /\ iseen = {}
    /\ iout = <<>>
    /\ ifetched = [u \in 1 .. (PageStop - 1) |-> 0]
    /\ ihist = NoIndexHist

\* one more request for the page
Fetch(page_url) == [ifetched EXCEPT ![page_url] = @ + 1]

\* collect_index_posts: one turn of `while queue`, lines 190-244. fetch is
\* not guarded there: its exception leaves the function
MigrarIndexStep ==
    /\ iFn = "migrar"
    /\ ipc = "loop"
    /\ iqueue # <<>>
    /\ LET page_url == Head(iqueue) IN
       IF page_url \in ivisited
       THEN /\ iqueue' = Tail(iqueue)
            /\ ihist' = [ihist EXCEPT !.skipped = 1]
            /\ UNCHANGED <<ipc, ivisited, iout, ifetched>>
       ELSE /\ ifetched[page_url] < MaxFetchesPerUrl
            /\ ivisited' = mark_visited(ivisited, page_url)
            /\ ifetched' = Fetch(page_url)
            /\ \E ok \in BOOLEAN, links \in LinkLists,
                  next_link \in IndexUrls \cup {NoNext} :
                  IF ~ok
                  THEN /\ ipc' = "raised"
                       /\ ihist' = [ihist EXCEPT !.failed = TRUE]
                       /\ iqueue' = Tail(iqueue)
                       /\ UNCHANGED iout
                  ELSE /\ iout' = posts_of_page(iout, links)
                       /\ iqueue' = IF next_link # NoNext
                                    THEN Append(Tail(iqueue), next_link)
                                    ELSE Tail(iqueue)
                       /\ UNCHANGED <<ipc, ihist>>
    /\ UNCHANGED <<iFn, ipage, istreak, iseen>>
    /\ UNCHANGED notIndex

\* collect_index_posts: the queue is empty, line 246
MigrarIndexReturn ==
    /\ iFn = "migrar"
    /\ ipc = "loop"
    /\ iqueue = <<>>
    /\ ipc' = "done"
    /\ UNCHANGED <<iFn, iqueue, ivisited, ipage, istreak, iseen, iout, ifetched, ihist>>
    /\ UNCHANGED notIndex

\* discover_post_urls: one turn of `for page_num in range(1, 10)`,
\* lines 173-195
SyncIndexStep ==
    /\ iFn = "sync"
    /\ ipc = "loop"
    /\ ipage < PageStop
    /\ ifetched[ipage] < MaxFetchesPerUrl
    /\ ifetched' = Fetch(ipage)
    /\ \E ok \in BOOLEAN, links \in LinkLists :
          IF ~ok
          THEN /\ ipc' = "done"
               /\ ihist' = [ihist EXCEPT !.failed = TRUE]
               /\ UNCHANGED <<ipage, istreak, iseen, iout>>
          ELSE \E page_urls \in {page_urls_of(links, iseen)} :
               /\ iseen' = iseen \cup Range(page_urls)
               /\ IF page_urls = <<>>
                  THEN /\ istreak' = istreak + 1
                       /\ IF istreak + 1 >= StreakLimit
                          THEN /\ ipc' = "done"
                               /\ ihist' = [ihist EXCEPT !.streak_end = TRUE]
                               /\ UNCHANGED ipage
                          ELSE /\ ipage' = ipage + 1
                               /\ UNCHANGED <<ipc, ihist>>
                       /\ UNCHANGED iout
                  ELSE /\ istreak' = 0
                       /\ iout' = iout \o page_urls
                       /\ ipage' = ipage + 1
                       /\ UNCHANGED <<ipc, ihist>>
    /\ UNCHANGED <<iFn, iqueue, ivisited>>
    /\ UNCHANGED notIndex

\* discover_post_urls: the range is used up, line 197
SyncIndexReturn ==
    /\ iFn = "sync"
    /\ ipc = "loop"
    /\ ipage = PageStop
    /\ ipc' = "done"
    /\ UNCHANGED <<iFn, iqueue, ivisited, ipage, istreak, iseen, iout, ifetched, ihist>>
    /\ UNCHANGED notIndex

IndexNext == MigrarIndexStep \/ MigrarIndexReturn \/ SyncIndexStep \/ SyncIndexReturn

InitIndex == IndexInit /\ LayoutIdle /\ SrcIdle /\ NormIdle /\ LinkIdle /\ DlIdle /\ MigIdle /\ ExcerptIdle /\ FetchIdle /\ RestoreIdle /\ PostsIdle /\ SeoIdle /\ CasesIdle

SpecIndex == InitIndex /\ [][IndexNext]_vars

\* the loops take their next turn whenever they can
SpecIndexFair == SpecIndex /\ WF_vars(IndexNext)

-----------------------------------------------------------------------------
(* Claims about the discovery of the index *)

RECURSIVE SumFetched(_)
SumFetched(n) == IF n = 0 THEN 0 ELSE ifetched[n] + SumFetched(n - 1)

\* no index page was requested twice, at most nine were requested, no slug
\* is listed twice, and discover_post_urls goes on only while no fetch
\* failed and fewer than two pages in a row gave nothing new
IndexSafe ==
    /\ \A u \in DOMAIN ifetched : ifetched[u] <= 1
    /\ SumFetched(PageStop - 1) <= PageStop - FirstPage
    /\ \A i, j \in 1 .. Len(iout) : iout[i] = iout[j] => i = j
    /\ (iFn = "sync" /\ ipc = "loop" => ~ihist.failed /\ istreak < StreakLimit)
    /\ (iFn = "sync" /\ (ihist.failed \/ ihist.streak_end) => ipc = "done")

\* C28: the discovery of the index ends, it requests no index page twice
\* even when the "next" links lead back to a page already read, it reads at
\* most nine pages, discover_post_urls stops at the first failed fetch and
\* after two pages in a row without a new slug, and no slug is listed twice
C28_IndexDiscoveryTerminates ==
    [](ipc # "idle" => IndexSafe) /\ <>(ipc \in {"done", "raised"})

\* collect_index_posts returned after a "next" link led back to a page it
\* had read, with two articles found
C28_Witness ==
    /\ iFn = "migrar"
    /\ ipc = "done"
    /\ ihist.skipped = 1
    /\ Cardinality(ivisited) >= 2
    /\ Len(iout) = 2

-----------------------------------------------------------------------------
(* seo_audit_and_fix.py: normalize_head.

   The head is the sequence of its tags. A tag is a record of the attributes
   the script looks at; an attribute the tag does not have is NoAttr, a text
   (content, href, string) is a character sequence and <<>> when absent. *)

NoAttr == "(no attribute)"

EnDash == "(en dash)"
EmDash == "(em dash)"

S_brandName == <<"F","C"," ","G","e","s","t","a","o"," ","E","s","t","r","a","t","e","g","i","c","a">>
S_brandBar == <<" ","|"," ","F","C"," ","G","e","s","t","a","o"," ","E","s","t","r","a","t","e","g","i","c","a">>
S_brandDash == <<" ","-"," ","F","C"," ","G","e","s","t","ã","o"," ","E","s","t","r","a","t","é","g","i","c","a">>
S_defaultDescription == <<"F","C"," ","G","e","s","t","a","o"," ","E","s","t","r","a","t","e","g","i","c","a",":"," ","c","o","n","s","u","l","t","o","r","i","a"," ","e","m"," ","l","i","c","e","n","c","i","a","m","e","n","t","o"," ","a","m","b","i","e","n","t","a","l"," ","e"," ","g","e","s","t","a","o"," ","d","e"," ","p","r","o","j","e","t","o","s",".">>
S_pageTitle == <<"S","o","b","r","e">>
S_siteUrl == <<"h","t","t","p","s",":","/","/","f","c","g","e",".","c","o","m">>
S_coverPath == <<"/","i","m","a","g","e","n","s","/","c","a","p","a",".","j","p","g">>
S_logoPng == <<"i","m","a","g","e","n","s","/","l","o","g","o","/","l","o","g","o","1","2","-","1",".","p","n","g">>
S_logoWebp == <<"i","m","a","g","e","n","s","/","l","o","g","o","/","l","o","g","o","1","2","-","1",".","w","e","b","p">>
S_resumo == <<"R","e","s","u","m","o"," "," ","d","o"," ","a","r","t","i","g","o">>
S_paragraph == <<"T","e","x","t","o"," ","d","a"," ","p","a","g","i","n","a">>
S_blank == <<" "," ">>
S_oldDescription == <<" ","D","e","s","c","r","i","c","a","o"," ","a","n","t","i","g","a"," ">>
S_indexHtml == <<"i","n","d","e","x",".","h","t","m","l">>
S_artigoHtml == <<"a","r","t","i","g","o","-","x",".","h","t","m","l">>
S_date == <<"2","0","2","4","-","0","2","-","0","3">>

\* ord(c) of the characters the titles are written with
code_point(c) ==
    CASE c \in Range(UpperCase) -> 64 + (CHOOSE i \in 1 .. Len(UpperCase) : UpperCase[i] = c)
      [] c \in Range(LowerCase) -> 96 + (CHOOSE i \in 1 .. Len(LowerCase) : LowerCase[i] = c)
      [] c = " " -> 32
      [] c = "-" -> 45
      [] c = ":" -> 58
      [] c = "\\" -> 92
      [] c = "|" -> 124
      [] c = "ã" -> 227
      [] c = "é" -> 233
      [] c = EnDash -> 8211
      [] c = EmDash -> 8212

TitleChars ==
    Range(UpperCase) \cup Range(LowerCase) \cup {" ", "-", ":", "\\", "|", "ã", "é", EnDash, EmDash}

\* unicodedata.normalize("NFKD", c) without the combining marks
unaccent(c) == CASE c \in {"ã", "á"} -> "a" [] c = "é" -> "e" [] OTHER -> c

\* normalize_text, lines 109-114
normalize_text(text) == [i \in 1 .. Len(text) |-> LowerChar(unaccent(text[i]))]

RECURSIVE str_count(_, _)
\* str.count(sub): the occurrences of sub that do not overlap
str_count(s, sub) ==
    IF Len(s) < Len(sub) THEN 0
    ELSE IF StartsWith(s, sub) THEN 1 + str_count(Drop(s, Len(sub)), sub)
    ELSE str_count(Tail(s), sub)

\* the two cases of a letter, for re.IGNORECASE
BothCases(c) == {c, LowerChar(c), UpperChar(c)}

\* the character class [|\\-–—] of line 328: "|", the range from the
\* backslash to the en dash, and the em dash
in_class(c) == c = "|" \/ (code_point("\\") <= code_point(c) /\ code_point(c) <= code_point(EnDash)) \/ c = EmDash

SeparatorClass == {c \in TitleChars : \E d \in BothCases(c) : in_class(d)}

\* items of a regular expression: a set of characters, taken once, zero or
\* more times, or one or more times
One(chars) == [chars |-> chars, rep |-> "1"]
Star(chars) == [chars |-> chars, rep |-> "*"]
Plus(chars) == [chars |-> chars, rep |-> "+"]

Literal(s) == [i \in 1 .. Len(s) |-> One(BothCases(s[i]))]

\* \s*[|\\-–—]\s*FC\s+Gest[aã]o\s+Estrat[eé]gica\s*$ under re.IGNORECASE,
\* line 328
brand_suffix_re ==
    <<Star(Whitespace), One(SeparatorClass), Star(Whitespace)>>
    \o Literal(<<"F","C">>) \o <<Plus(Whitespace)>>
    \o Literal(<<"G","e","s","t">>) \o <<One({"a", "ã"})>> \o Literal(<<"o">>)
    \o <<Plus(Whitespace)>>
    \o Literal(<<"E","s","t","r","a","t">>) \o <<One({"e", "é"})>>
    \o Literal(<<"g","i","c","a">>) \o <<Star(Whitespace)>>

RECURSIVE re_fullmatch(_, _)
\* the pattern matches the whole of s
re_fullmatch(pattern, s) ==
    IF pattern = <<>> THEN s = <<>>
    ELSE LET item == Head(pattern) IN
         CASE item.rep = "1" ->
                  s # <<>> /\ Head(s) \in item.chars /\ re_fullmatch(Tail(pattern), Tail(s))
           [] item.rep = "*" ->
                  \/ (s # <<>> /\ Head(s) \in item.chars /\ re_fullmatch(pattern, Tail(s)))
                  \/ re_fullmatch(Tail(pattern), s)
           [] item.rep = "+" ->
                  s # <<>> /\ Head(s) \in item.chars
                  /\ re_fullmatch(<<Star(item.chars)>> \o Tail(pattern), Tail(s))

\* re.sub(pattern + "$", "", s): the leftmost match that reaches the end of
\* s is cut off
re_sub_end(pattern, s) ==
    LET starts == {i \in 1 .. Len(s) : re_fullmatch(pattern, SubSeq(s, i, Len(s)))}
    IN  IF starts = {} THEN s
        ELSE SubSeq(s, 1, (CHOOSE i \in starts : \A j \in starts : i <= j) - 1)

\* lines 327-332
strip_brand(title_text) == Strip(re_sub_end(brand_suffix_re, title_text))

\* lines 324-336: the text the title gets
branded_title(text) ==
    LET brand_norm == normalize_text(S_brandName)
        stripped == IF str_count(normalize_text(text), brand_norm) > 1
                    THEN strip_brand(text)
                    ELSE text
    IN  IF str_count(normalize_text(stripped), brand_norm) = 0
        THEN stripped \o S_brandBar
        ELSE stripped

\* soup.new_tag(name)
new_tag(name) ==
    [tag |-> name, charset |-> NoAttr, name |-> NoAttr, property |-> NoAttr,
     rel |-> <<>>, type |-> NoAttr, id |-> NoAttr,
     content |-> <<>>, href |-> <<>>, string |-> <<>>]

meta_charset(charset) == [new_tag("meta") EXCEPT !.charset = charset]
meta_name(name, content) == [new_tag("meta") EXCEPT !.name = name, !.content = content]
meta_property(prop, content) == [new_tag("meta") EXCEPT !.property = prop, !.content = content]
link_rel(rel, href) == [new_tag("link") EXCEPT !.rel = <<rel>>, !.href = href]
title_of(string) == [new_tag("title") EXCEPT !.string = string]
structured_data(string) ==
    [new_tag("script") EXCEPT !.type = "application/ld+json", !.id = "structured-data",
                              !.string = string]

IsCharset(tag) == tag.tag = "meta" /\ tag.charset # NoAttr
IsMetaName(tag, name) == tag.tag = "meta" /\ tag.name = name
IsMetaProperty(tag, prop) == tag.tag = "meta" /\ tag.property = prop
IsLinkRel(tag, rel) == tag.tag = "link" /\ rel \in Range(tag.rel)
IsTitle(tag) == tag.tag = "title"
IsStructuredData(tag) ==
    tag.tag = "script" /\ tag.type = "application/ld+json" /\ tag.id = "structured-data"

\* head.insert(position, tag)
head_insert(head, position, tag) == Take(head, position) \o <<tag>> \o Drop(head, Len(Take(head, position)))

\* the position of the first tag that passes the test, 0 when there is none
FirstWhere(head, Test(_)) ==
    LET found == {i \in 1 .. Len(head) : Test(head[i])}
    IN  IF found = {} THEN 0 ELSE CHOOSE i \in found : \A j \in found : i <= j

\* tags[0] is rewritten, tags[1:] are decomposed (lines 295-298, 304-307)
keep_first(head, Test(_), Rewrite(_)) ==
    LET first == FirstWhere(head, Test)
        marked == [i \in 1 .. Len(head) |->
                      IF i = first THEN Rewrite(head[i])
                      ELSE IF Test(head[i]) THEN new_tag(Dropped)
                      ELSE head[i]]
        kept(tag) == tag.tag # Dropped
    IN  SelectSeq(marked, kept)

\* ensure_meta, lines 246-252
ensure_meta(head, name, content) ==
    LET other(tag) == ~IsMetaName(tag, name)
    IN  Append(SelectSeq(head, other), meta_name(name, content))

\* ensure_meta_property, lines 255-263
ensure_meta_property(head, prop, content) ==
    LET other(tag) == ~IsMetaProperty(tag, prop)
    IN  IF content = None THEN SelectSeq(head, other)
        ELSE Append(SelectSeq(head, other), meta_property(prop, content))

\* ensure_link, lines 266-273
ensure_link(head, rel, href) ==
    LET other(tag) == ~IsLinkRel(tag, rel)
    IN  Append(SelectSeq(head, other), link_rel(rel, href))

\* absolute_url, lines 63-68
absolute_url(site_url, path) ==
    IF path = <<>> THEN None
    ELSE IF StartsWith(path, S_http) \/ StartsWith(path, S_https) THEN path
    ELSE site_url \o S_slash \o LStripChar(path, "/")

\* posts.get(slug) found nothing, or the page is no article
NoPost == [exists |-> FALSE, excerpt |-> <<>>, coverImagePath |-> <<>>, dateISO |-> None]

\* is_article (lines 87-88): path.name.startswith("artigo-")
is_article(page_name) == StartsWith(page_name, <<"a","r","t","i","g","o","-">>)

\* lines 294-301
head_charset(head) ==
    LET utf8(tag) == [tag EXCEPT !.charset = "utf-8"]
    IN  IF FirstWhere(head, IsCharset) # 0 THEN keep_first(head, IsCharset, utf8)
        ELSE head_insert(head, 0, meta_charset("utf-8"))

S_viewport == <<"width=device-width, initial-scale=1">>

\* lines 303-312
head_viewport(head) ==
    LET is_viewport(tag) == IsMetaName(tag, "viewport")
        device(tag) == [tag EXCEPT !.content = S_viewport]
    IN  IF FirstWhere(head, is_viewport) # 0 THEN keep_first(head, is_viewport, device)
        ELSE head_insert(head, 1, meta_name("viewport", S_viewport))

\* lines 314-322: title_text before the brand is looked at
title_text_of(head, h1_text) ==
    LET at == FirstWhere(head, IsTitle)
        text == IF at = 0 THEN <<>> ELSE Strip(head[at].string)
    IN  IF text # <<>> THEN text
        ELSE IF h1_text # <<>> THEN h1_text
        ELSE S_brandName

\* lines 318-320 and 337: the first title of the head gets the text
head_title(head, title_text) ==
    LET with_title == IF FirstWhere(head, IsTitle) = 0
                      THEN Append(head, new_tag("title"))
                      ELSE head
    IN  [with_title EXCEPT ![FirstWhere(with_title, IsTitle)].string = title_text]

\* find_description, lines 234-243; main_text is the text it picks: the
\* first paragraph or list item of 40 characters or more, else all the text
find_description(main_text) ==
    IF main_text = <<>> THEN <<>> ELSE strip_and_truncate(main_text, SeoLimit)

\* lines 342-354
description_of(head, post_data, main_text) ==
    LET is_description(tag) == IsMetaName(tag, "description")
        at == FirstWhere(head, is_description)
        existing == IF at = 0 THEN <<>> ELSE Strip(head[at].content)
        found == IF existing # <<>> THEN existing
                 ELSE IF post_data.exists /\ post_data.excerpt # <<>> THEN post_data.excerpt
                 ELSE find_description(main_text)
        description == IF found # <<>> THEN found ELSE S_defaultDescription
    IN  strip_and_truncate(description, SeoLimit)

\* lines 358 and 361-367, 391-395
canonical_of(site_url, page_name) ==
    IF page_name # S_indexHtml THEN site_url \o S_slash \o page_name ELSE site_url \o S_slash

logo_of(site_url, logos) ==
    IF "png" \in logos THEN absolute_url(site_url, S_logoPng)
    ELSE IF "webp" \in logos THEN absolute_url(site_url, S_logoWebp)
    ELSE None

og_image_of(site_url, post_data, logos) ==
    IF post_data.exists /\ post_data.coverImagePath # <<>>
    THEN absolute_url(site_url, post_data.coverImagePath)
    ELSE logo_of(site_url, logos)

\* lines 369-386: the Open Graph and Twitter metas and the icon links
head_social(head, title_text, description, canonical, og_type, og_image) ==
    LET og1 == ensure_meta_property(head, "og:title", title_text)
        og2 == ensure_meta_property(og1, "og:description",
                                    IF description # <<>> THEN description ELSE None)
        og3 == ensure_meta_property(og2, "og:url", canonical)
        og4 == ensure_meta_property(og3, "og:type", <<og_type>>)
        og5 == ensure_meta_property(og4, "og:image", og_image)
        og6 == ensure_meta_property(og5, "og:site_name", S_brandName)
        tw1 == ensure_meta(og6, "twitter:card",
                           IF og_image # None THEN <<"summary_large_image">> ELSE <<"summary">>)
        tw2 == ensure_meta(tw1, "twitter:title", title_text)
        tw3 == IF description # <<>> THEN ensure_meta(tw2, "twitter:description", description)
               ELSE tw2
        tw4 == IF og_image # None THEN ensure_meta(tw3, "twitter:image", og_image) ELSE tw3
        ln1 == ensure_link(tw4, "icon", <<"assets/icons/favicon.svg">>)
        ln2 == ensure_link(ln1, "apple-touch-icon", <<"imagens/logo/logo12-1.png">>)
    IN  ensure_link(ln2, "manifest", <<"site.webmanifest">>)

\* lines 388-436: the structured data; of json.dumps(data) the types of the
\* nodes of "@graph" are kept
head_structured(head, slug, date_published) ==
    LET other(tag) == ~IsStructuredData(tag)
        cleared == SelectSeq(head, other)
        dated == IF slug
                 THEN ensure_meta_property(
                          ensure_meta_property(cleared, "article:published_time", date_published),
                          "article:modified_time", date_published)
                 ELSE cleared
        graph == <<"Organization", "WebSite">> \o (IF slug THEN <<"BlogPosting">> ELSE <<>>)
    IN  Append(dated, structured_data(graph))

\* normalize_head, lines 276-444, on the head of the soup
normalize_head(soup, env) ==
    LET slug == is_article(env.page_name)
        post_data == IF slug THEN env.post_data ELSE NoPost
        head1 == head_viewport(head_charset(soup.head))
        title_text == branded_title(title_text_of(head1, soup.h1))
        head2 == head_title(head1, title_text)
        description == description_of(head2, post_data, soup.main_text)
        head3 == IF description # <<>> THEN ensure_meta(head2, "description", description)
                 ELSE head2
        canonical == canonical_of(env.site_url, env.page_name)
        head4 == ensure_link(head3, "canonical", canonical)
        og_image == og_image_of(env.site_url, post_data, env.logos)
        head5 == head_social(head4, title_text, description, canonical,
                             IF slug THEN "article" ELSE "website", og_image)
        date_published == IF post_data.exists THEN post_data.dateISO ELSE None
    IN  [soup EXCEPT !.html = TRUE, !.lang = "pt-BR", !.has_head = TRUE,
                     !.head = head_structured(head5, slug, date_published)]

-----------------------------------------------------------------------------
(* The SEO fix run on one page, and run again on what it wrote *)

\* tags a head can hold before the first run
MaxHeadTags == 3
\* runs of the script
MaxSeoRuns == 2

S_twice == S_pageTitle \o S_brandDash \o S_brandBar
S_thrice == S_pageTitle \o S_brandBar \o S_brandBar \o S_brandBar

HeadPool ==
    {meta_charset("iso-8859-1"),
     meta_name("viewport", <<"width=1024">>),
     meta_name("description", S_oldDescription),
     link_rel("canonical", <<"http://old/">>),
     meta_property("og:title", S_pageTitle),
     structured_data(<<"Organization">>),
     title_of(S_pageTitle), title_of(S_twice), title_of(S_thrice)}

FullPost == [exists |-> TRUE, excerpt |-> S_resumo, coverImagePath |-> S_coverPath, dateISO |-> S_date]
BlankPost == [exists |-> TRUE, excerpt |-> S_blank, coverImagePath |-> <<>>, dateISO |-> None]

\* the page, its entry of posts.json and the logo files that exist
SeoEnvs ==
    {[page_name |-> S_indexHtml, site_url |-> S_siteUrl, post_data |-> NoPost, logos |-> {"png"}],
     [page_name |-> S_artigoHtml, site_url |-> S_siteUrl, post_data |-> FullPost, logos |-> {}],
     [page_name |-> S_artigoHtml, site_url |-> S_siteUrl, post_data |-> BlankPost, logos |-> {"webp"}],
     [page_name |-> S_artigoHtml, site_url |-> S_siteUrl, post_data |-> NoPost, logos |-> {}]}

\* what the claims compare a run with
SeoCounts(head) ==
    [charset |-> Len(SelectSeq(head, IsCharset)),
     title |-> Len(SelectSeq(head, IsTitle)),
     structured |-> Len(SelectSeq(head, IsStructuredData)),
     tags |-> Len(head)]

TitleOf(head) == head[FirstWhere(head, IsTitle)].string

SeoInit ==
    /\ seoEnv \in SeoEnvs
    /\ \E head \in UNION {SeqsOf(HeadPool, n) : n \in 0 .. MaxHeadTags},
          h1 \in {<<>>, S_pageTitle}, main_text \in {<<>>, S_paragraph} :
          /\ (h1 = <<>>) = (main_text = <<>>)
          /\ seoSoup = [html |-> head # <<>>, lang |-> NoAttr, has_head |-> head # <<>>,
                        head |-> head, h1 |-> h1, main_text |-> main_text]
    /\ seoRuns = 0
    /\ seoLast = [title |-> <<>>, counts |-> SeoCounts(<<>>)]

\* main, lines 630-662, for one page: the page is parsed, normalize_head
\* rewrites its head, and the page is written back
SeoFixPage ==
    /\ seoRuns < MaxSeoRuns
    /\ seoSoup' = normalize_head(seoSoup, seoEnv)
    /\ seoRuns' = seoRuns + 1
    /\ seoLast' = IF seoRuns = 0 THEN seoLast
                  ELSE [title |-> TitleOf(seoSoup.head), counts |-> SeoCounts(seoSoup.head)]
    /\ UNCHANGED seoEnv
    /\ UNCHANGED notSeo

SeoNext == SeoFixPage

InitSeo == SeoInit /\ LayoutIdle /\ SrcIdle /\ NormIdle /\ LinkIdle /\ DlIdle /\ MigIdle /\ ExcerptIdle /\ FetchIdle /\ RestoreIdle /\ PostsIdle /\ IndexIdle /\ CasesIdle

SpecSeo == InitSeo /\ [][SeoNext]_vars

-----------------------------------------------------------------------------
(* Claims about normalize_head *)

CountWhere(head, Test(_)) == Len(SelectSeq(head, Test))

MetaNames(head, name) == LET is(tag) == IsMetaName(tag, name) IN CountWhere(head, is)
MetaProperties(head, prop) == LET is(tag) == IsMetaProperty(tag, prop) IN CountWhere(head, is)
LinkRels(head, rel) == LET is(tag) == IsLinkRel(tag, rel) IN CountWhere(head, is)

\* the metas normalize_head sets on every page, and those it sets on some
AlwaysSetProperties == {"og:title", "og:url", "og:type", "og:site_name"}
SometimesSetProperties == {"og:description", "og:image", "article:published_time", "article:modified_time"}
AlwaysSetNames == {"twitter:card", "twitter:title"}
SometimesSetNames == {"twitter:description", "twitter:image"}

HeadHoldsOneOfEach(head) ==
    /\ CountWhere(head, IsCharset) = 1
    /\ MetaNames(head, "viewport") = 1
    /\ MetaNames(head, "description") = 1
    /\ LinkRels(head, "canonical") = 1
    /\ \A prop \in AlwaysSetProperties : MetaProperties(head, prop) = 1
    /\ \A prop \in SometimesSetProperties : MetaProperties(head, prop) <= 1
    /\ \A name \in AlwaysSetNames : MetaNames(head, name) = 1
    /\ \A name \in SometimesSetNames : MetaNames(head, name) <= 1
    /\ CountWhere(head, IsStructuredData) = 1
    /\ str_count(normalize_text(TitleOf(head)), normalize_text(S_brandName)) >= 1

\* C29: after normalize_head the head holds one charset meta, one viewport
\* meta, one description meta, one canonical link, one of each Open Graph
\* and Twitter meta that is set and one structured-data script, and the
\* title contains the brand; a further run on the page it wrote adds no tag
\* and leaves the title as it was
C29_HeadNormalizedOnceAndForAll ==
    /\ seoRuns >= 1 => HeadHoldsOneOfEach(seoSoup.head)
    /\ seoRuns >= 2 => /\ SeoCounts(seoSoup.head) = seoLast.counts
                       /\ TitleOf(seoSoup.head) = seoLast.title

-----------------------------------------------------------------------------
(* sync_cases_from_doc.py: the slugs of parse_cases_from_text *)

\* strip_accents, lines 45-48
strip_accents(text) == [i \in 1 .. Len(text) |-> unaccent(text[i])]

IsSlugChar(c) == c \in Range(LowerCase) \cup Digits

\* re.sub(r"[^a-z0-9]+", "-", text), line 53: every run of characters
\* outside [a-z0-9] becomes one "-", which leaves re.sub(r"-+", "-", text)
\* of line 54 nothing to do
dash_runs(text) ==
    SelectSeq([i \in 1 .. Len(text) |->
                  IF IsSlugChar(text[i]) THEN text[i]
                  ELSE IF i > 1 /\ ~IsSlugChar(text[i - 1]) THEN Dropped
                  ELSE "-"],
              NotDropped)

\* slugify, lines 51-55; every line works on the value of the line before
slugify(text) ==
    CHOOSE slug \in
        {IF stripped # <<>> THEN stripped ELSE <<"c","a","s","e">> :
            stripped \in {StripChar(dashed, "-") :
                dashed \in {dash_runs(lowered) :
                    lowered \in {strip_accents(Lower(text))}}}} : TRUE

\* f"{base_slug}-{counter}", line 204
suffixed(base_slug, counter) == base_slug \o <<"-">> \o IntToStr(counter)

\* the slug is never remembered
used_slugs_add_never(used_slugs, slug) == used_slugs

\* used_slugs.add(slug), line 206
used_slugs_add(used_slugs, slug) == used_slugs \cup {slug}

\* blocks of the document
MaxBlocks == 3

\* counter = 2, line 202
FirstSuffix == 2

S_cal == <<"C","a","l">>
S_calAccent == <<"c","á","l"," ","!">>
S_cal2 == <<" ","C","a","l"," ","2"," ">>
S_cal3 == <<"C","A","L","-","-","3">>
S_question == <<"?">>

\* a block is the text before "Contexto:" and whether "Contexto:" is in it
BlockPool ==
    {[title |-> t, contexto |-> TRUE] : t \in {S_cal, S_calAccent, S_cal2, S_cal3, S_question, <<" ">>}}
    \cup {[title |-> S_cal, contexto |-> FALSE], [title |-> <<>>, contexto |-> FALSE]}

\* what re.split can give
BlockLists == UNION {SeqsOf(BlockPool, n) : n \in 0 .. MaxBlocks}

CasesInit ==
    /\ cBlocks = <<>>
    /\ cpc = "split"
    /\ cCases = <<>>
    /\ cUsed = {}
    /\ cSlug = <<>>
    /\ cBase = <<>>
    /\ cCounter = 0

\* lines 150-153: the text is split at "Case:"
CaseSplit ==
    /\ cpc = "split"
    /\ cBlocks' \in BlockLists
    /\ cpc' = "for"
    /\ UNCHANGED <<cCases, cUsed, cSlug, cBase, cCounter>>
    /\ UNCHANGED notCases

\* lines 156-165: a block without "Contexto:" or without a title is passed
\* over
passed_over(block) == ~block.contexto \/ Strip(block.title) = <<>>

\* one block of `for block in blocks`, lines 155-202
CaseBlock ==
    /\ cpc = "for"
    /\ cBlocks # <<>>
    /\ \E block \in {Head(cBlocks)} :
          IF passed_over(block)
          THEN /\ cBlocks' = Tail(cBlocks)
               /\ UNCHANGED <<cpc, cSlug, cBase, cCounter>>
          ELSE \E title \in {Strip(block.title)} :
               \E slug \in {slugify(title)} :
                  /\ cSlug' = slug
                  /\ cBase' = slug
                  /\ cCounter' = FirstSuffix
                  /\ cpc' = "while"
                  /\ UNCHANGED cBlocks
    /\ UNCHANGED <<cCases, cUsed>>
    /\ UNCHANGED notCases

\* one turn of `while slug in used_slugs`, lines 203-205
SuffixStep ==
    /\ cpc = "while"
    /\ cSlug \in cUsed
    /\ cSlug' = suffixed(cBase, cCounter)
    /\ cCounter' = cCounter + 1
    /\ UNCHANGED <<cBlocks, cpc, cCases, cUsed, cBase>>
    /\ UNCHANGED notCases

\* the slug is free: lines 206-229
CaseAppend ==
    /\ cpc = "while"
    /\ cSlug \notin cUsed
    /\ cUsed' = used_slugs_add(cUsed, cSlug)
    /\ cCases' = Append(cCases, [slug |-> cSlug, title |-> Strip(Head(cBlocks).title)])
    /\ cBlocks' = Tail(cBlocks)
    /\ cpc' = "for"
    /\ UNCHANGED <<cSlug, cBase, cCounter>>
    /\ UNCHANGED notCases

\* return cases, line 231
CasesReturn ==
    /\ cpc = "for"
    /\ cBlocks = <<>>
    /\ cpc' = "done"
    /\ UNCHANGED <<cBlocks, cCases, cUsed, cSlug, cBase, cCounter>>
    /\ UNCHANGED notCases

CasesNext == CaseSplit \/ CaseBlock \/ SuffixStep \/ CaseAppend \/ CasesReturn

InitCases == CasesInit /\ LayoutIdle /\ SrcIdle /\ NormIdle /\ LinkIdle /\ DlIdle /\ MigIdle /\ ExcerptIdle /\ FetchIdle /\ RestoreIdle /\ PostsIdle /\ IndexIdle /\ SeoIdle

SpecCases == InitCases /\ [][CasesNext]_vars

\* the loops take their next turn whenever they can
SpecCasesFair == SpecCases /\ WF_vars(CasesNext)

-----------------------------------------------------------------------------
(* Claims about the slugs of the cases *)

\* the slugs tried for a title, in the order of the search: the slug of the
\* title, then the suffixes -2, -3, ...
Candidate(title, k) == IF k = 1 THEN slugify(title) ELSE suffixed(slugify(title), k)

EarlierSlugs(i) == {cCases[j].slug : j \in 1 .. (i - 1)}

\* case i has the first candidate that no earlier case has
FirstFree(i) ==
    \E k \in 1 .. i :
        /\ cCases[i].slug = Candidate(cCases[i].title, k)
        /\ \A m \in 1 .. (k - 1) : Candidate(cCases[i].title, m) \in EarlierSlugs(i)

SlugsDistinct ==
    /\ \A i, j \in 1 .. Len(cCases) : cCases[i].slug = cCases[j].slug => i = j
    /\ \A i \in 1 .. Len(cCases) : FirstFree(i)

\* C30: the slugs of the cases are pairwise distinct whatever the titles
\* are; a title whose slug is taken gets the first of the suffixes -2, -3,
\* ... that is free, also when an earlier title has that suffixed slug as
\* its own, and the search for the suffix ends
C30_CaseSlugsDistinct ==
    [](cpc \notin {"idle", "split"} => SlugsDistinct) /\ <>(cpc = "done")

\* "Cal 2" took cal-2 as its own slug before the second "Cal" came, which
\* got cal-3
C30_Witness ==
    /\ cpc = "done"
    /\ \E i, j \in 1 .. Len(cCases) :
          /\ j < i
          /\ cCases[j].slug = slugify(cCases[j].title)
          /\ cCases[j].slug = suffixed(slugify(cCases[i].title), 2)
          /\ cCases[i].slug = suffixed(slugify(cCases[i].title), 3)

====
